---- MODULE Spec2Model ----
(***************************************************************************)
(* Model of the Fix Fast agent: the agentic loop of Agent.Run              *)
(* (src/agent/agent.go) with the tool dispatcher (src/tools/triage.go),    *)
(* the classification engine DetectRegression (src/tools/detect.go), and   *)
(* the handlers TriageIssue and GenerateFixPlan (src/tools/triage.go).     *)
(* The handler AttributeToOwner follows its description in spec.md.        *)
(***************************************************************************)
EXTENDS Integers, Sequences, FiniteSets, TLC

(* ------------------------------ bounds --------------------------------- *)

\* Largest number of model calls one run may issue in the model.
MaxCalls == 3

\* Largest number of content blocks the provider returns over one run.
MaxBlocks == 4

VARIABLES
    pc,             \* position of Run: "loop", "awaiting", "tools", "done", "failed"
    messages,       \* the local slice `messages` of Run
    paramsMessages, \* params.Messages, what a model call carries
    finalText,      \* the strings.Builder finalText, as the sequence of texts written
    content,        \* message.Content of the turn being processed
    idx,            \* position of the tool loop in content (next block to visit)
    toolResults,    \* the local slice toolResults of the current turn
    result,         \* what Run returned: [text, err], or NoResult while running
    cancelled,      \* whether ctx has been cancelled
    sent,           \* the messages carried by the model call issued last
    calls,          \* number of model calls issued
    outstanding,    \* number of model calls issued and not yet answered
    execLog,        \* call identifiers in the order their tool request was run
    dpc,            \* position of a call of DetectRegression: "idle", "input", "returned"
    din,            \* the JSON object the call is given
    dout,           \* what the call returned
    tpc,            \* position of a call of TriageIssue: "idle", "input", "returned"
    tin,            \* the JSON object the call is given
    tout,           \* what the call returned
    fpc,            \* position of a call of GenerateFixPlan: "idle", "input", "returned"
    fin,            \* the JSON object the call is given
    fout,           \* what the call returned
    apc,            \* position of a call of AttributeToOwner: "idle", "input", "returned"
    ain,            \* the JSON object the call is given
    aout,           \* what the call returned
    tables,         \* the package-level lookup tables, as the handlers of a session see them
    cpc,            \* per caller of a session: "idle", "looked_up", "customized"
    cin,            \* per caller: the decoded input of its GenerateFixPlan call
    clocal,         \* per caller: the local variable playbook of its call
    returned,       \* per tool: the calls of the session that returned, [seq, in, out]
    ncalls          \* number of calls started in the session

\* The variables of Run and those of a call of each tool handler.
rvars == <<pc, messages, paramsMessages, finalText, content, idx, toolResults,
           result, cancelled, sent, calls, outstanding, execLog>>

dvars == <<dpc, din, dout>>

tvars == <<tpc, tin, tout>>

fvars == <<fpc, fin, fout>>

avars == <<apc, ain, aout>>

\* The variables of a session of calls by concurrent callers.
svars == <<tables, cpc, cin, clocal, returned, ncalls>>

\* The variables of the calls of the tool handlers.
hvars == <<dvars, tvars, fvars, avars, svars>>

vars == <<rvars, hvars>>

(* --------------------------- tool registry ----------------------------- *)

\* allTools: the names of the registered tools, in registration order.
allTools == <<"detect_regression", "triage_issue", "attribute_to_owner",
              "generate_fix_plan">>

\* Tool names the model may ask for: registered ones and one that is not.
RequestedNames == {"detect_regression", "no_such_tool"}

\* Shapes of toolUse.Input: a JSON object the handler decodes, a JSON value
\* the handler's json.Unmarshal rejects, and bytes json.Marshal rejects.
RequestedInputs == {"object", "mistyped", "notjson"}

\* Handler: every registered handler starts by decoding its input and
\* returns the decoding error; otherwise it returns a JSON result.
Handler(name, inputJSON) ==
    IF inputJSON = "object"
    THEN [result |-> "json", err |-> "nil"]
    ELSE [result |-> "", err |-> "unmarshal error"]

\* Variant of dispatch: a name that is not registered falls to the first tool.
dispatchFallsBackToFirst(defs, name, inputJSON) ==
    IF \E i \in 1..Len(defs) : defs[i] = name
    THEN Handler(name, inputJSON)
    ELSE Handler(defs[1], inputJSON)

\* dispatch: the first registered tool of that name handles the call; an
\* unregistered name is an error.
dispatch(defs, name, inputJSON) ==
    IF \E i \in 1..Len(defs) : defs[i] = name
    THEN Handler(name, inputJSON)
    ELSE [result |-> "", err |-> "unknown tool"]

(* ----------------------------- messages -------------------------------- *)

NoResult == [text |-> <<>>, err |-> "running"]

TextBlock(t) == [kind |-> "text", text |-> t, id |-> 0, name |-> "", input |-> ""]

ToolUseBlock(i, n, in) ==
    [kind |-> "tool_use", text |-> "", id |-> i, name |-> n, input |-> in]

NewToolResultBlock(id, c, isError) ==
    [kind |-> "tool_result", tool_use_id |-> id, content |-> c, is_error |-> isError]

NewUserMessage(blocks) == [role |-> "user", content |-> blocks]

ToParam(c) == [role |-> "assistant", content |-> c]

\* The input of the run.
InputText == "bug report"

\* Block shapes a model turn may hold; call identifiers are filled in by
\* the provider (IdOf), unique over the run.
BlockShapes ==
    {TextBlock("t")} \cup
    {ToolUseBlock(0, n, "object") : n \in RequestedNames} \cup
    {ToolUseBlock(0, "detect_regression", in) : in \in RequestedInputs \ {"object"}}

IdOf(call, pos) == call * 10 + pos

\* The contents a turn may have when `room` more blocks may be returned.
Turns(call, room) ==
    UNION {
        { [i \in 1..n |-> IF shape[i].kind = "tool_use"
                          THEN [shape[i] EXCEPT !.id = IdOf(call, i)]
                          ELSE shape[i]] : shape \in [1..n -> BlockShapes] }
        : n \in 0..room }

\* Number of content blocks of the assistant turns of a history.
RECURSIVE BlocksReturned(_)
BlocksReturned(msgs) ==
    IF msgs = <<>> THEN 0
    ELSE (IF Head(msgs).role = "assistant" THEN Len(Head(msgs).content) ELSE 0)
         + BlocksReturned(Tail(msgs))

\* Texts of the text blocks of a turn, in order.
RECURSIVE TextsOf(_)
TextsOf(c) ==
    IF c = <<>> THEN <<>>
    ELSE (IF Head(c).kind = "text" THEN <<Head(c).text>> ELSE <<>>) \o TextsOf(Tail(c))

(* ------------------------------- Run ----------------------------------- *)

RunInit ==
    /\ pc = "loop"
    /\ messages = <<NewUserMessage(<<TextBlock(InputText)>>)>>
    /\ paramsMessages = <<>>
    /\ finalText = <<>>
    /\ content = <<>>
    /\ idx = 1
    /\ toolResults = <<>>
    /\ result = NoResult
    /\ cancelled = FALSE
    /\ sent = <<>>
    /\ calls = 0
    /\ outstanding = 0
    /\ execLog = <<>>

\* a.client.Messages.New(ctx, params) is issued.
IssueCall ==
    /\ pc = "loop"
    /\ calls < MaxCalls
    /\ pc' = "awaiting"
    /\ sent' = paramsMessages
    /\ calls' = calls + 1
    /\ outstanding' = outstanding + 1
    /\ UNCHANGED <<messages, paramsMessages, finalText, content, idx,
                   toolResults, result, cancelled, execLog, hvars>>

\* Variant of ModelFail: the text accumulated so far is returned with the error.
ModelFailReturnsText ==
    /\ pc = "awaiting"
    /\ pc' = "failed"
    /\ outstanding' = outstanding - 1
    /\ result' = [text |-> finalText, err |-> "API call failed"]
    /\ UNCHANGED <<messages, paramsMessages, finalText, content, idx,
                   toolResults, cancelled, sent, calls, execLog, hvars>>

\* The call fails (transport, decoding, or ctx cancelled): Run returns.
ModelFail ==
    /\ pc = "awaiting"
    /\ pc' = "failed"
    /\ outstanding' = outstanding - 1
    /\ result' = [text |-> <<>>, err |-> "API call failed"]
    /\ UNCHANGED <<messages, paramsMessages, finalText, content, idx,
                   toolResults, cancelled, sent, calls, execLog, hvars>>

\* The call returns a message: its text is written out and kept, the
\* assistant turn is appended, and the tool loop starts.  The client hands
\* back a message only while ctx is live; with ctx cancelled the call fails.
\* What is written to w is not kept in the state.
ModelReply ==
    /\ pc = "awaiting"
    /\ ~cancelled
    /\ \E c \in Turns(calls, MaxBlocks - BlocksReturned(messages)) :
        /\ content' = c
        /\ finalText' = finalText \o TextsOf(c)
        /\ messages' = Append(messages, ToParam(c))
    /\ outstanding' = outstanding - 1
    /\ idx' = 1
    /\ toolResults' = <<>>
    /\ pc' = "tools"
    /\ UNCHANGED <<paramsMessages, result, cancelled, sent, calls, execLog, hvars>>

\* One iteration of the loop over message.Content on a block that is not
\* a tool request.
SkipBlock ==
    /\ pc = "tools"
    /\ idx <= Len(content)
    /\ content[idx].kind # "tool_use"
    /\ idx' = idx + 1
    /\ UNCHANGED <<pc, messages, paramsMessages, finalText, content,
                   toolResults, result, cancelled, sent, calls, outstanding, execLog, hvars>>

\* The tool result one tool request yields.
ToolResultFor(toolUse) ==
    IF toolUse.input = "notjson"
    THEN NewToolResultBlock(toolUse.id, "error marshaling input", TRUE)
    ELSE LET r == dispatch(allTools, toolUse.name, toolUse.input) IN
         IF r.err # "nil"
         THEN NewToolResultBlock(toolUse.id, r.err, TRUE)
         ELSE NewToolResultBlock(toolUse.id, r.result, FALSE)

\* Variant of ExecTool: a request whose input cannot be marshalled is skipped
\* without a tool result.
ExecToolDropsFailedMarshal ==
    /\ pc = "tools"
    /\ idx <= Len(content)
    /\ content[idx].kind = "tool_use"
    /\ toolResults' = IF content[idx].input = "notjson"
                      THEN toolResults
                      ELSE Append(toolResults, ToolResultFor(content[idx]))
    /\ execLog' = Append(execLog, content[idx].id)
    /\ idx' = idx + 1
    /\ UNCHANGED <<pc, messages, paramsMessages, finalText, content,
                   result, cancelled, sent, calls, outstanding, hvars>>

\* Variant of ExecTool: the newest tool result is put first.
ExecToolPrepends ==
    /\ pc = "tools"
    /\ idx <= Len(content)
    /\ content[idx].kind = "tool_use"
    /\ toolResults' = <<ToolResultFor(content[idx])>> \o toolResults
    /\ execLog' = Append(execLog, content[idx].id)
    /\ idx' = idx + 1
    /\ UNCHANGED <<pc, messages, paramsMessages, finalText, content,
                   result, cancelled, sent, calls, outstanding, hvars>>

\* One iteration of the loop over message.Content on a tool request.
ExecTool ==
    /\ pc = "tools"
    /\ idx <= Len(content)
    /\ content[idx].kind = "tool_use"
    /\ toolResults' = Append(toolResults, ToolResultFor(content[idx]))
    /\ execLog' = Append(execLog, content[idx].id)
    /\ idx' = idx + 1
    /\ UNCHANGED <<pc, messages, paramsMessages, finalText, content,
                   result, cancelled, sent, calls, outstanding, hvars>>

\* No tool results: Run returns the accumulated text.
Finish ==
    /\ pc = "tools"
    /\ idx > Len(content)
    /\ Len(toolResults) = 0
    /\ pc' = "done"
    /\ result' = [text |-> finalText, err |-> "nil"]
    /\ UNCHANGED <<messages, paramsMessages, finalText, content, idx,
                   toolResults, cancelled, sent, calls, outstanding, execLog, hvars>>

\* Variant of FeedBack: the loop gives up after its second model call.
FeedBackCapped ==
    /\ pc = "tools"
    /\ idx > Len(content)
    /\ Len(toolResults) # 0
    /\ messages' = Append(messages, NewUserMessage(toolResults))
    /\ paramsMessages' = messages'
    /\ pc' = IF calls >= 2 THEN "done" ELSE "loop"
    /\ result' = IF calls >= 2 THEN [text |-> finalText, err |-> "nil"] ELSE result
    /\ UNCHANGED <<finalText, content, idx, toolResults, cancelled,
                   sent, calls, outstanding, execLog, hvars>>

\* Tool results are fed back as one user turn and the loop repeats.
FeedBack ==
    /\ pc = "tools"
    /\ idx > Len(content)
    /\ Len(toolResults) # 0
    /\ messages' = Append(messages, NewUserMessage(toolResults))
    /\ paramsMessages' = messages'
    /\ pc' = "loop"
    /\ UNCHANGED <<finalText, content, idx, toolResults, result, cancelled,
                   sent, calls, outstanding, execLog, hvars>>

\* The caller cancels ctx while Run is running: at any point of the loop,
\* a model call outstanding or not.
Cancel ==
    /\ pc \in {"loop", "awaiting", "tools"}
    /\ ~cancelled
    /\ cancelled' = TRUE
    /\ UNCHANGED <<pc, messages, paramsMessages, finalText, content, idx,
                   toolResults, result, sent, calls, outstanding, execLog, hvars>>


(***************************************************************************)
(* DetectRegression (src/tools/detect.go).  Text is a sequence of          *)
(* one-character strings, so that lower-casing, trimming, substring search *)
(* and splitting are computed and not assumed.                             *)
(***************************************************************************)

(* ------------------------------ bounds --------------------------------- *)

\* Longest run history drawn as input.
MaxHistory == 3

\* Length of the one long all-failing run history drawn as input.
LongRun == 20

\* Resolution of the fixed-point numbers that stand for float64: a value x
\* is held as the integer x * Scale.
Scale == 10000

\* Descriptions drawn as input.
Descriptions == {
    <<"p","a","n","i","c",":"," ","n","i","l"," ","p","o","i","n","t","e","r"," ","d","e","r","e","f","e","r","e","n","c","e"," ","i","n"," ","h","a","n","d","l","e","r">>,  \* 'panic: nil pointer dereference in handler'
    <<>>,  \* ''
    <<"b","u","t","t","o","n"," ","i","s"," ","m","i","s","a","l","i","g","n","e","d">>,  \* 'button is misaligned'
    <<"C","r","a","s","h"," ","t","h","e","n"," ","t","i","m","e","o","u","t">>,  \* 'Crash then timeout'
    <<"s","l","o","w"," ","t","i","m","e","o","u","t"," ","c","r","a","s","h">>,  \* 'slow timeout crash'
    <<"N","I","L">>,  \* 'NIL'
    <<"n","p","e",":"," ","n","u","l","l","p","o","i","n","t","e","r","e","x","c","e","p","t","i","o","n",","," ","n","i","l"," ","p","o","i","n","t","e","r",","," ","n","u","l","l"," ","r","e","f","e","r","e","n","c","e">>,  \* 'npe: nullpointerexception, nil pointer, null reference'
    <<"s","l","o","w"," ","l","a","t","e","n","c","y"," ","t","i","m","e","o","u","t"," ","p","e","r","f","o","r","m","a","n","c","e"," ","m","e","m","o","r","y"," ","u","s","a","g","e"," ","c","p","u"," ","s","p","i","k","e"," ","t","h","r","o","u","g","h","p","u","t">>  \* 'slow latency timeout performance memory usage cpu spike throughput'
}

\* Error messages drawn as input.
ErrorMessages == {
    <<>>,  \* ''
    <<"p","o","i","n","t","e","r">>,  \* 'pointer'
    <<"F","A","T","A","L"," ","E","R","R","O","R">>  \* 'FATAL ERROR'
}

\* Run-history tokens drawn as input.
HistoryTokens == {
    <<"p","a","s","s">>,  \* 'pass'
    <<"f","a","i","l">>,  \* 'fail'
    <<" ","F","A","I","L"," ">>,  \* ' FAIL '
    <<"e","r","r","o","r">>  \* 'error'
}

\* File lists drawn as input.
FileLists == {
    <<>>,
    <<<<"R","E","A","D","M","E",".","m","d">>>>,
    <<<<"a","u","t","h","/","l","o","g","i","n",".","g","o">>,
      <<"R","E","A","D","M","E",".","m","d">>,
      <<"a","u","t","h","/","t","o","k","e","n",".","g","o">>>>,
    <<<<"a","u","t","h">>,
      <<"/","e","t","c","/","h","o","s","t","s">>,
      <<"a","u","t","h","/","l","o","g","i","n",".","g","o">>,
      <<"s","r","c","/","t","o","o","l","s","/","d","e","t","e","c","t",".","g","o">>,
      <<>>>>
}

(* --------------------------- lookup table ------------------------------ *)

regressionSignals == <<
    [keywords |-> <<
        <<"n","u","l","l">>,  \* null
        <<"n","i","l">>,  \* nil
        <<"n","p","e">>,  \* npe
        <<"n","u","l","l","p","o","i","n","t","e","r","e","x","c","e","p","t","i","o","n">>,  \* nullpointerexception
        <<"n","i","l"," ","p","o","i","n","t","e","r">>,  \* nil pointer
        <<"n","u","l","l"," ","r","e","f","e","r","e","n","c","e">>  \* null reference
     >>, regrType |-> "null_pointer", severity |-> "high",
     indicator |-> "Null/nil dereference pattern"],
    [keywords |-> <<
        <<"p","a","n","i","c">>,  \* panic
        <<"c","r","a","s","h">>,  \* crash
        <<"s","e","g","f","a","u","l","t">>,  \* segfault
        <<"s","i","g","s","e","g","v">>,  \* sigsegv
        <<"a","b","o","r","t">>,  \* abort
        <<"f","a","t","a","l"," ","e","r","r","o","r">>  \* fatal error
     >>, regrType |-> "crash", severity |-> "critical",
     indicator |-> "Application crash signal"],
    [keywords |-> <<
        <<"s","l","o","w">>,  \* slow
        <<"l","a","t","e","n","c","y">>,  \* latency
        <<"t","i","m","e","o","u","t">>,  \* timeout
        <<"p","e","r","f","o","r","m","a","n","c","e">>,  \* performance
        <<"m","e","m","o","r","y"," ","u","s","a","g","e">>,  \* memory usage
        <<"c","p","u"," ","s","p","i","k","e">>,  \* cpu spike
        <<"t","h","r","o","u","g","h","p","u","t">>  \* throughput
     >>, regrType |-> "performance", severity |-> "medium",
     indicator |-> "Performance degradation signal"],
    [keywords |-> <<
        <<"m","e","m","o","r","y"," ","l","e","a","k">>,  \* memory leak
        <<"o","o","m">>,  \* oom
        <<"o","u","t"," ","o","f"," ","m","e","m","o","r","y">>,  \* out of memory
        <<"h","e","a","p">>,  \* heap
        <<"a","l","l","o","c">>,  \* alloc
        <<"g","c"," ","p","r","e","s","s","u","r","e">>  \* gc pressure
     >>, regrType |-> "memory_leak", severity |-> "high",
     indicator |-> "Memory leak indicator"],
    [keywords |-> <<
        <<"w","r","o","n","g"," ","r","e","s","u","l","t">>,  \* wrong result
        <<"i","n","c","o","r","r","e","c","t">>,  \* incorrect
        <<"u","n","e","x","p","e","c","t","e","d"," ","v","a","l","u","e">>,  \* unexpected value
        <<"o","f","f"," ","b","y"," ","o","n","e">>,  \* off by one
        <<"l","o","g","i","c">>,  \* logic
        <<"c","a","l","c","u","l","a","t","i","o","n">>  \* calculation
     >>, regrType |-> "logic_error", severity |-> "medium",
     indicator |-> "Logic error pattern"],
    [keywords |-> <<
        <<"c","o","r","r","u","p","t">>,  \* corrupt
        <<"d","a","t","a"," ","l","o","s","s">>,  \* data loss
        <<"i","n","c","o","n","s","i","s","t","e","n","t"," ","s","t","a","t","e">>,  \* inconsistent state
        <<"t","r","a","n","s","a","c","t","i","o","n">>,  \* transaction
        <<"a","t","o","m","i","c">>  \* atomic
     >>, regrType |-> "data_corruption", severity |-> "critical",
     indicator |-> "Data integrity concern"],
    [keywords |-> <<
        <<"b","r","e","a","k","i","n","g"," ","c","h","a","n","g","e">>,  \* breaking change
        <<"a","p","i"," ","c","h","a","n","g","e">>,  \* api change
        <<"i","n","t","e","r","f","a","c","e">>,  \* interface
        <<"s","i","g","n","a","t","u","r","e">>,  \* signature
        <<"d","e","p","r","e","c","a","t","e","d">>,  \* deprecated
        <<"r","e","m","o","v","e","d"," ","m","e","t","h","o","d">>  \* removed method
     >>, regrType |-> "api_breaking_change", severity |-> "high",
     indicator |-> "API contract violation"],
    [keywords |-> <<
        <<"s","q","l"," ","i","n","j","e","c","t","i","o","n">>,  \* sql injection
        <<"x","s","s">>,  \* xss
        <<"c","s","r","f">>,  \* csrf
        <<"a","u","t","h"," ","b","y","p","a","s","s">>,  \* auth bypass
        <<"p","r","i","v","i","l","e","g","e">>,  \* privilege
        <<"c","v","e">>,  \* cve
        <<"v","u","l","n","e","r","a","b","i","l","i","t","y">>  \* vulnerability
     >>, regrType |-> "security_flaw", severity |-> "critical",
     indicator |-> "Security vulnerability signal"]
>>

(* --------------------------- text helpers ------------------------------ *)

UpperCase == <<"A","B","C","D","E","F","G","H","I","J","K","L","M",
               "N","O","P","Q","R","S","T","U","V","W","X","Y","Z">>

LowerCase == <<"a","b","c","d","e","f","g","h","i","j","k","l","m",
               "n","o","p","q","r","s","t","u","v","w","x","y","z">>

\* strings.ToLower
ToLower(s) ==
    [i \in 1..Len(s) |->
        IF \E k \in 1..Len(UpperCase) : UpperCase[k] = s[i]
        THEN LowerCase[CHOOSE k \in 1..Len(UpperCase) : UpperCase[k] = s[i]]
        ELSE s[i]]

WhiteSpace == {" ", "\t", "\n", "\r"}

\* strings.TrimSpace
RECURSIVE TrimSpace(_)
TrimSpace(s) ==
    IF s = <<>> THEN s
    ELSE IF Head(s) \in WhiteSpace THEN TrimSpace(Tail(s))
    ELSE IF s[Len(s)] \in WhiteSpace THEN TrimSpace(SubSeq(s, 1, Len(s) - 1))
    ELSE s

\* strings.Contains
Contains(s, substr) ==
    \E i \in 1..(Len(s) - Len(substr) + 1) :
        \A j \in 1..Len(substr) : s[i + j - 1] = substr[j]

\* strings.Split(f, "/")[0] and whether the split has more than one part.
HasSeparator(f) == \E i \in 1..Len(f) : f[i] = "/"

FirstPart(f) ==
    IF HasSeparator(f)
    THEN SubSeq(f, 1, (CHOOSE i \in 1..Len(f) :
                          f[i] = "/" /\ \A j \in 1..(i - 1) : f[j] # "/") - 1)
    ELSE f

\* deduplicate: keeps the first occurrence of every value, in order.
RECURSIVE deduplicateFrom(_, _)
deduplicateFrom(out, s) ==
    IF s = <<>> THEN out
    ELSE IF \E k \in 1..Len(out) : out[k] = Head(s)
         THEN deduplicateFrom(out, Tail(s))
         ELSE deduplicateFrom(Append(out, Head(s)), Tail(s))

\* Variant of deduplicate: keeps the last occurrence of every value.
deduplicateKeepsLast(s) ==
    LET rev(t) == [i \in 1..Len(t) |-> t[Len(t) + 1 - i]]
    IN rev(deduplicateFrom(<<>>, rev(s)))

deduplicate(s) == deduplicateFrom(<<>>, s)

(* ------------------------ fixed-point float64 -------------------------- *)

\* a / n rounded to the nearest integer (halves upwards), n > 0.
RoundDiv(a, n) == (2 * a + n) \div (2 * n)

\* The number num/den.
F(num, den) == RoundDiv(num * Scale, den)

\* a * b, the product taken in two parts to stay within the integers of TLC.
FMul(a, b) == (a \div Scale) * b + RoundDiv((a % Scale) * b, Scale)

FDiv(a, b) == RoundDiv(a * Scale, b)

\* Largest r with r * r <= x, by bisection on lo..hi.
RECURSIVE ISqrt(_, _, _)
ISqrt(x, lo, hi) ==
    IF lo >= hi THEN lo
    ELSE LET mid == (lo + hi + 1) \div 2 IN
         IF mid * mid <= x THEN ISqrt(x, mid, hi) ELSE ISqrt(x, lo, mid - 1)

\* math.Sqrt, to the nearest representable number.  The argument is held
\* at twice the precision (as an integer x * Scale * Scale), which keeps the
\* small terms under the root of wilsonLowerBound.
FSqrt(a2) ==
    LET r == ISqrt(a2, 0, 4 * Scale)
    IN IF a2 > r * r + r THEN r + 1 ELSE r

FMin(a, b) == IF a < b THEN a ELSE b

\* math.Round(x*1000) / 1000
Round3(x) == RoundDiv(x * 1000, Scale) * (Scale \div 1000)

\* Variant of wilsonLowerBound: the lower bound of the normal approximation,
\* p - z * sqrt(p * (1 - p) / n), without the centre adjustment.
wilsonLowerBoundUnadjusted(successes, total, z) ==
    IF total = 0 THEN 0
    ELSE LET p == F(successes, total)
             n == total
             lb == p - FMul(z, FSqrt(RoundDiv(p * (Scale - p), n)))
         IN IF lb < 0 THEN 0 ELSE lb

\* wilsonLowerBound(successes, total, z)
wilsonLowerBound(successes, total, z) ==
    IF total = 0 THEN 0
    ELSE LET p == F(successes, total)
             n == total
             z2 == FMul(z, z)
             numerator == p + RoundDiv(z2, 2 * n)
                          - FMul(z, FSqrt(RoundDiv(p * (Scale - p), n)
                                          + RoundDiv(z * z, 4 * n * n)))
             denominator == Scale + RoundDiv(z2, n)
             lb == FDiv(numerator, denominator)
         IN IF lb < 0 THEN 0 ELSE lb

(* -------------------------- DetectRegression --------------------------- *)

\* A nil *RunHistoryStats.
NoRunStats ==
    [nil |-> TRUE, total_runs |-> 0, failure_count |-> 0, failure_rate |-> 0,
     stat_confidence |-> 0, is_likely_flake |-> FALSE]

NoPatternSummary ==
    [text |-> "No clear regression patterns detected. Manual review recommended.",
     severity |-> "", regression_type |-> "", environment |-> "",
     run_stats |-> NoRunStats, flake_note |-> ""]

\* JSON values: a string, an array of strings, a number.
JStr(s) == [type |-> "string", val |-> s]
JArr(a) == [type |-> "array", val |-> a]
JNum(n) == [type |-> "number", val |-> n]

\* The JSON type each field of DetectRegressionInput decodes from.
DetectRegressionInput ==
    [description   |-> "string",
     files_changed |-> "array",
     environment   |-> "string",
     error_message |-> "string",
     run_history   |-> "array"]

\* json.Unmarshal fails when a field of the struct is given a value of
\* another type; fields the struct does not have are ignored.
UnmarshalFails(obj) ==
    \E k \in DOMAIN obj \cap DOMAIN DetectRegressionInput :
        obj[k].type # DetectRegressionInput[k]

\* A field missing from the object keeps its zero value.
Field(obj, k, zero) == IF k \in DOMAIN obj THEN obj[k].val ELSE zero

Unmarshal(obj) ==
    [Description  |-> Field(obj, "description", <<>>),
     FilesChanged |-> Field(obj, "files_changed", <<>>),
     Environment  |-> Field(obj, "environment", ""),
     ErrorMessage |-> Field(obj, "error_message", <<>>),
     RunHistory   |-> Field(obj, "run_history", <<>>)]

\* Number of keywords of one row that the text contains.
KeywordCount(desc, sig) ==
    Cardinality({k \in 1..Len(sig.keywords) : Contains(desc, sig.keywords[k])})

\* The slice `scores`: the rows with a match, in row order.
Scores(desc) ==
    LET all == [i \in 1..Len(regressionSignals) |->
                   [regrType  |-> regressionSignals[i].regrType,
                    severity  |-> regressionSignals[i].severity,
                    score     |-> KeywordCount(desc, regressionSignals[i]),
                    indicator |-> regressionSignals[i].indicator]]
    IN SelectSeq(all, LAMBDA s : s.score > 0)

\* Variant of PickBest: an entry that ties with the best so far replaces it.
RECURSIVE PickBestLastTieWins(_, _)
PickBestLastTieWins(best, rest) ==
    IF rest = <<>> THEN best
    ELSE PickBestLastTieWins(
             IF Head(rest).score >= best.score THEN Head(rest) ELSE best,
             Tail(rest))

\* The loop that picks the highest-scoring entry.
RECURSIVE PickBest(_, _)
PickBest(best, rest) ==
    IF rest = <<>> THEN best
    ELSE PickBest(IF Head(rest).score > best.score THEN Head(rest) ELSE best,
                  Tail(rest))

\* Clamping of the keyword confidence to [0.3, 0.9].
ClampConfidence(c) ==
    LET c1 == IF c > F(9, 10) THEN F(9, 10) ELSE c
    IN IF c1 < F(3, 10) THEN F(3, 10) ELSE c1

\* Variant of KeywordStep: the count is divided by the keyword count of the
\* winning row plus 3.
KeywordStepDividesByWinningRow(desc) ==
    LET scores == Scores(desc)
        o == [is_regression       |-> FALSE,
              regression_type     |-> "unknown",
              severity            |-> "low",
              affected_components |-> <<>>,
              indicators          |-> [i \in 1..Len(scores) |-> scores[i].indicator],
              confidence          |-> 0,
              run_stats           |-> NoRunStats,
              summary             |-> NoPatternSummary]
    IN IF Len(scores) > 0
       THEN LET best == PickBest(scores[1], Tail(scores))
                row == CHOOSE i \in 1..Len(regressionSignals) :
                          regressionSignals[i].regrType = best.regrType
            IN
            [o EXCEPT !.is_regression = TRUE,
                      !.regression_type = best.regrType,
                      !.severity = best.severity,
                      !.confidence = ClampConfidence(
                          FDiv(best.score * Scale,
                               (Len(regressionSignals[row].keywords) + 3) * Scale))]
       ELSE o

\* The output after the keyword step.
KeywordStep(desc) ==
    LET scores == Scores(desc)
        o == [is_regression       |-> FALSE,
              regression_type     |-> "unknown",
              severity            |-> "low",
              affected_components |-> <<>>,
              indicators          |-> [i \in 1..Len(scores) |-> scores[i].indicator],
              confidence          |-> 0,
              run_stats           |-> NoRunStats,
              summary             |-> NoPatternSummary]
    IN IF Len(scores) > 0
       THEN LET best == PickBest(scores[1], Tail(scores)) IN
            [o EXCEPT !.is_regression = TRUE,
                      !.regression_type = best.regrType,
                      !.severity = best.severity,
                      !.confidence = ClampConfidence(
                          FDiv(best.score * Scale,
                               (Len(regressionSignals[1].keywords) + 3) * Scale))]
       ELSE o

\* Variant of CountFailures: an entry counts only when it is spelled "fail".
CountFailuresExactSpelling(runHistory) ==
    Cardinality({i \in 1..Len(runHistory) : runHistory[i] = <<"f","a","i","l">>})

\* Number of entries of the run history that read "fail".
CountFailures(runHistory) ==
    Cardinality({i \in 1..Len(runHistory) :
                   ToLower(TrimSpace(runHistory[i])) = <<"f","a","i","l">>})

\* Variant of RunHistoryStep: with a failure observed the statistical
\* confidence always replaces the confidence.
RunHistoryStepAlwaysReplaces(o, runHistory) ==
    IF Len(runHistory) > 0
    THEN LET failures == CountFailures(runHistory)
             total == Len(runHistory)
             rate == F(failures, total)
             statConf == wilsonLowerBound(failures, total, Scale)
             stats == [nil             |-> FALSE,
                       total_runs      |-> total,
                       failure_count   |-> failures,
                       failure_rate    |-> Round3(rate),
                       stat_confidence |-> Round3(statConf),
                       is_likely_flake |-> statConf < F(4, 10)]
             o1 == [o EXCEPT !.run_stats = stats]
         IN IF failures > 0
            THEN [o1 EXCEPT !.is_regression = TRUE,
                            !.confidence = FMin(statConf, F(95, 100))]
            ELSE o1
    ELSE o

\* Variant of RunHistoryStep: only the entries that read "pass" or "fail"
\* count as runs.
RunHistoryStepSkipsOtherTokens(o, runHistory) ==
    IF Len(runHistory) > 0
    THEN LET failures == CountFailures(runHistory)
             total == Cardinality({i \in 1..Len(runHistory) :
                          ToLower(TrimSpace(runHistory[i]))
                              \in {<<"f","a","i","l">>, <<"p","a","s","s">>}})
             rate == F(failures, IF total = 0 THEN 1 ELSE total)
             statConf == wilsonLowerBound(failures, total, Scale)
             stats == [nil             |-> FALSE,
                       total_runs      |-> total,
                       failure_count   |-> failures,
                       failure_rate    |-> Round3(rate),
                       stat_confidence |-> Round3(statConf),
                       is_likely_flake |-> statConf < F(4, 10)]
             o1 == [o EXCEPT !.run_stats = stats]
         IN IF failures > 0
            THEN IF statConf > o1.confidence
                 THEN [o1 EXCEPT !.is_regression = TRUE,
                                 !.confidence = FMin(statConf, F(95, 100))]
                 ELSE [o1 EXCEPT !.is_regression = TRUE]
            ELSE o1
    ELSE o

\* The run-history step.
RunHistoryStep(o, runHistory) ==
    IF Len(runHistory) > 0
    THEN LET failures == CountFailures(runHistory)
             total == Len(runHistory)
             rate == F(failures, total)
             statConf == wilsonLowerBound(failures, total, Scale)
             stats == [nil             |-> FALSE,
                       total_runs      |-> total,
                       failure_count   |-> failures,
                       failure_rate    |-> Round3(rate),
                       stat_confidence |-> Round3(statConf),
                       is_likely_flake |-> statConf < F(4, 10)]
             o1 == [o EXCEPT !.run_stats = stats]
         IN IF failures > 0
            THEN IF statConf > o1.confidence
                 THEN [o1 EXCEPT !.is_regression = TRUE,
                                 !.confidence = FMin(statConf, F(95, 100))]
                 ELSE [o1 EXCEPT !.is_regression = TRUE]
            ELSE o1
    ELSE o

\* The affected components of the file list.
ComponentsStep(o, filesChanged) ==
    [o EXCEPT !.affected_components =
        deduplicate([i \in 1..Len(filesChanged) |-> FirstPart(filesChanged[i])])]

\* Variant of SummaryStep: the confidence of a result that is no regression
\* is left as it is.
SummaryStepKeepsConfidence(o, environment) ==
    IF o.is_regression
    THEN [o EXCEPT !.summary =
            [text |-> "Detected a regression",
             severity |-> o.severity,
             regression_type |-> o.regression_type,
             environment |-> environment,
             run_stats |-> o.run_stats,
             flake_note |-> IF o.run_stats.is_likely_flake
                            THEN " Low recurrence - likely a flake." ELSE ""]]
    ELSE [o EXCEPT !.summary = NoPatternSummary]

\* The summary, and the confidence of a result that is no regression.
SummaryStep(o, environment) ==
    IF o.is_regression
    THEN [o EXCEPT !.summary =
            [text |-> "Detected a regression",
             severity |-> o.severity,
             regression_type |-> o.regression_type,
             environment |-> environment,
             run_stats |-> o.run_stats,
             flake_note |-> IF o.run_stats.is_likely_flake
                            THEN " Low recurrence - likely a flake." ELSE ""]]
    ELSE [o EXCEPT !.summary = NoPatternSummary, !.confidence = F(2, 10)]

\* DetectRegression(inputJSON): the result and the error.
DetectRegression(inputJSON) ==
    IF UnmarshalFails(inputJSON)
    THEN [output |-> "", err |-> "unmarshal error"]
    ELSE LET input == Unmarshal(inputJSON)
             desc == ToLower(input.Description \o <<" ">> \o input.ErrorMessage)
         IN [output |-> SummaryStep(
                            ComponentsStep(
                                RunHistoryStep(KeywordStep(desc), input.RunHistory),
                                input.FilesChanged),
                            input.Environment),
             err |-> "nil"]

(* ----------------------- calls of DetectRegression --------------------- *)

\* The description of the null-pointer scenario.
PanicDescription ==
    <<"p","a","n","i","c",":"," ","n","i","l"," ","p","o","i","n","t","e","r"," ",
      "d","e","r","e","f","e","r","e","n","c","e"," ","i","n"," ","h","a","n","d","l","e","r">>

\* A history of 105 runs of which the first 47 fail: its Wilson lower bound
\* is 0.39981, which math.Round(x*1000)/1000 turns into 0.4.
BorderlineHistory ==
    [i \in 1..105 |-> IF i <= 47 THEN <<"f","a","i","l">> ELSE <<"p","a","s","s">>]

\* Histories with an empty token, a token wrapped in a tab and a newline,
\* and a token that only starts with "fail".
OddTokenHistories ==
    {<<<<>>>>,
     <<<<>>, <<"f","a","i","l">>>>,
     <<<<"\t","F","a","i","l","\n">>, <<>>, <<"f","a","i","l","e","d">>>>}

\* The histories drawn: every short one, one long run of failures, the
\* borderline one, and those with odd tokens.
Histories ==
    UNION {[1..n -> HistoryTokens] : n \in 0..MaxHistory}
    \cup {[i \in 1..LongRun |-> <<"f","a","i","l">>]}
    \cup {BorderlineHistory}
    \cup OddTokenHistories

\* The run_history field: missing, or an array.
HistoryChoices ==
    {[given |-> FALSE, val |-> <<>>]} \cup {[given |-> TRUE, val |-> h] : h \in Histories}

MkDetectInput(d, e, f, h) ==
    LET base == [description   |-> JStr(d),
                 environment   |-> JStr("ci"),
                 error_message |-> JStr(e),
                 files_changed |-> JArr(f)]
    IN IF h.given THEN base @@ ("run_history" :> JArr(h.val)) ELSE base

\* Inputs drawn for DetectRegression: every text with every run history,
\* every text with every file list, one object whose description is a
\* number, objects without one of the fields, and one with a field the
\* struct does not have.
DetectInputs ==
    {MkDetectInput(d, e, <<>>, h) :
        d \in Descriptions, e \in ErrorMessages, h \in HistoryChoices}
    \cup {MkDetectInput(d, e, f, [given |-> FALSE, val |-> <<>>]) :
        d \in Descriptions, e \in ErrorMessages, f \in FileLists}
    \cup {[description |-> JNum(42), environment |-> JStr("ci")]}
    \cup {[x \in (DOMAIN DetectRegressionInput) \ {k} |->
               MkDetectInput(PanicDescription, <<>>, CHOOSE f \in FileLists : Len(f) = 1,
                             [given |-> TRUE, val |-> <<<<"f","a","i","l">>>>])[x]] :
             k \in DOMAIN DetectRegressionInput}
    \cup {MkDetectInput(PanicDescription, <<>>, <<>>, [given |-> FALSE, val |-> <<>>])
             @@ ("reporter" :> JStr("qa-bot"))}

NoReturn == [output |-> "", err |-> "pending"]

DetectIdle ==
    /\ dpc = "idle"
    /\ din = [description |-> JStr(<<>>), environment |-> JStr("ci")]
    /\ dout = NoReturn

(* ----------------------------- TriageIssue ----------------------------- *)

\* Variant of environmentMultiplier: code review costs less than CI.
environmentMultiplierReviewCheaper ==
    [ide         |-> 1,
     local_test  |-> 3,
     ci          |-> 10,
     code_review |-> 5,
     staging     |-> 30,
     production  |-> 100]

\* Cost multiplier of the stage at which the issue was found.
environmentMultiplier ==
    [ide         |-> 1,
     local_test  |-> 3,
     ci          |-> 10,
     code_review |-> 15,
     staging     |-> 30,
     production  |-> 100]

severityBaseScore ==
    [critical |-> F(100, 1),
     high     |-> F(50, 1),
     medium   |-> F(20, 1),
     low      |-> F(5, 1)]

\* Variant of shiftLeftTarget: code review is shifted to CI.
shiftLeftTargetReviewToCi(env) ==
    LET targets == [production  |-> "staging",
                    staging     |-> "ci",
                    ci          |-> "local_test",
                    code_review |-> "ci",
                    local_test  |-> "ide",
                    ide         |-> "ide"]
    IN IF env \in DOMAIN targets THEN targets[env] ELSE "ci"

\* shiftLeftTarget(env)
shiftLeftTarget(env) ==
    LET targets == [production  |-> "staging",
                    staging     |-> "ci",
                    ci          |-> "local_test",
                    code_review |-> "local_test",
                    local_test  |-> "ide",
                    ide         |-> "ide"]
    IN IF env \in DOMAIN targets THEN targets[env] ELSE "ci"

\* The JSON type each field of TriageIssueInput decodes from.
TriageIssueInput ==
    [regression_type         |-> "string",
     severity                |-> "string",
     environment             |-> "string",
     affected_users_estimate |-> "number"]

\* json.Unmarshal into a struct with the given field types fails when a
\* field of the struct is given a value of another type; fields the struct
\* does not have are ignored, and nothing is required to be present.
DecodeFails(obj, types) ==
    \E k \in DOMAIN obj \cap DOMAIN types : obj[k].type # types[k]

RECURSIVE GCD(_, _)
GCD(a, b) == IF b = 0 THEN a ELSE GCD(b, a % b)

\* a / b, the fraction reduced first to stay within the integers of TLC.
FQuot(a, b) ==
    LET g == GCD(a, b) IN RoundDiv((a \div g) * Scale, b \div g)

\* Variant of Fmt0: a half always goes up.
Fmt0HalfUp(x) ==
    LET q == x \div Scale
        r == x % Scale
    IN IF 2 * r >= Scale THEN q + 1 ELSE q

\* The integer fmt prints for %.0f: the nearest one, a half going to the
\* even neighbour.
Fmt0(x) ==
    LET q == x \div Scale
        r == x % Scale
    IN IF 2 * r > Scale \/ (2 * r = Scale /\ q % 2 = 1) THEN q + 1 ELSE q

\* Variant of PriorityOf: the thresholds are exclusive.
PriorityOfAbove(cpdScore) ==
    IF cpdScore > F(5000, 1)
    THEN [priority |-> "P0",
          action   |-> "Page on-call immediately. Revert or hotfix within 1 hour."]
    ELSE IF cpdScore > F(1000, 1)
    THEN [priority |-> "P1",
          action   |-> "Fix today. Assign to the last committer and block release if unresolved."]
    ELSE IF cpdScore > F(200, 1)
    THEN [priority |-> "P2",
          action   |-> "Schedule fix this sprint. Add to team backlog with owner assigned."]
    ELSE [priority |-> "P3",
          action   |-> "Add to backlog. Consider addressing during next refactoring cycle."]

\* The switch on cpdScore: priority and recommended action.
PriorityOf(cpdScore) ==
    IF cpdScore >= F(5000, 1)
    THEN [priority |-> "P0",
          action   |-> "Page on-call immediately. Revert or hotfix within 1 hour."]
    ELSE IF cpdScore >= F(1000, 1)
    THEN [priority |-> "P1",
          action   |-> "Fix today. Assign to the last committer and block release if unresolved."]
    ELSE IF cpdScore >= F(200, 1)
    THEN [priority |-> "P2",
          action   |-> "Schedule fix this sprint. Add to team backlog with owner assigned."]
    ELSE [priority |-> "P3",
          action   |-> "Add to backlog. Consider addressing during next refactoring cycle."]

\* Variant of UserImpactFactor: an estimate of exactly 1000 already doubles.
UserImpactFactorFromThousand(estimate) ==
    IF estimate >= 1000 THEN F(2, 1)
    ELSE IF estimate > 100 THEN F(15, 10)
    ELSE F(1, 1)

\* userImpactFactor
UserImpactFactor(estimate) ==
    IF estimate > 1000 THEN F(2, 1)
    ELSE IF estimate > 100 THEN F(15, 10)
    ELSE F(1, 1)

\* multiplier, with the staging-level default
Multiplier(environment) ==
    IF environment \in DOMAIN environmentMultiplier
    THEN environmentMultiplier[environment]
    ELSE 30

\* baseScore, with the medium-level default
BaseScore(severity) ==
    IF severity \in DOMAIN severityBaseScore
    THEN severityBaseScore[severity]
    ELSE F(20, 1)

\* TriageIssue(inputJSON): the result and the error.
TriageIssue(inputJSON) ==
    IF DecodeFails(inputJSON, TriageIssueInput)
    THEN [output |-> "", err |-> "unmarshal error"]
    ELSE LET input == [RegressionType        |-> Field(inputJSON, "regression_type", ""),
                       Severity              |-> Field(inputJSON, "severity", ""),
                       Environment           |-> Field(inputJSON, "environment", ""),
                       AffectedUsersEstimate |-> Field(inputJSON, "affected_users_estimate", 0)]
             multiplier == Multiplier(input.Environment)
             baseScore == BaseScore(input.Severity)
             userImpactFactor == UserImpactFactor(input.AffectedUsersEstimate)
             cpdScore == FMul(baseScore * multiplier, userImpactFactor)
             chosen == PriorityOf(cpdScore)
             shiftLeft == shiftLeftTarget(input.Environment)
             shiftLeftScore == FMul(baseScore * environmentMultiplier[shiftLeft],
                                    userImpactFactor)
         IN [output |->
                [cpd_score          |-> cpdScore,
                 cpd_multiplier     |-> multiplier,
                 priority           |-> chosen.priority,
                 recommended_action |-> chosen.action,
                 shift_left_target  |-> shiftLeft,
                 cost_rationale     |->
                     [base        |-> Fmt0(baseScore),
                      multiplier  |-> multiplier,
                      environment |-> input.Environment,
                      user_impact |-> userImpactFactor,
                      cpd         |-> Fmt0(cpdScore),
                      caught_at   |-> shiftLeft,
                      would_be    |-> Fmt0(shiftLeftScore),
                      cheaper     |-> Fmt0(FQuot(cpdScore, shiftLeftScore))]],
             err |-> "nil"]

(* ------------------------- calls of TriageIssue ------------------------ *)

\* A JSON object without one of its fields.
Without(obj, k) == [x \in (DOMAIN obj) \ {k} |-> obj[x]]

TriageTypes == {"null_pointer", "unknown"}

TriageSeverities == {"critical", "high", "medium", "low", "urgent", ""}

TriageEnvironments ==
    {"ide", "local_test", "ci", "code_review", "staging", "production", "qa", ""}

UserEstimates == {-1, 0, 100, 101, 1000, 1001, 50000}

MkTriageInput(t, s, e, u) ==
    [regression_type         |-> JStr(t),
     severity                |-> JStr(s),
     environment             |-> JStr(e),
     affected_users_estimate |-> JNum(u)]

\* The complete objects drawn for TriageIssue.
FullTriageInputs ==
    {MkTriageInput(t, s, e, u) :
        t \in TriageTypes, s \in TriageSeverities,
        e \in TriageEnvironments, u \in UserEstimates}

\* Inputs drawn for TriageIssue: the complete objects, objects without one
\* of the fields, one with a field the struct does not have, and one whose
\* estimate is a string.
TriageInputs ==
    FullTriageInputs
    \cup {Without(MkTriageInput("crash", "critical", "production", 5000), k) :
             k \in DOMAIN TriageIssueInput}
    \cup {MkTriageInput("crash", "high", "ci", 10) @@ ("reporter" :> JStr("qa-bot"))}
    \cup {[MkTriageInput("crash", "high", "ci", 0)
              EXCEPT !.affected_users_estimate = JStr("many")]}

TriageIdle ==
    /\ tpc = "idle"
    /\ tin = MkTriageInput("", "", "", 0)
    /\ tout = NoReturn

(* --------------------------- GenerateFixPlan --------------------------- *)

\* fixPlaybooks: the fix strategy of each regression type that has one.
\* (Characters outside ASCII are written as "-", "^2".)
fixPlaybooks ==
    [
     null_pointer |->
        [ImmediateActions |->
            <<"Add null guard before the failing dereference",
              "Check if recent commit removed a non-null guarantee">>,
         FixSteps |->
            <<[order |-> 1, action |-> "reproduce",
               description |-> <<"Write a failing test that reproduces the NPE">>,
               automated |-> FALSE],
              [order |-> 2, action |-> "guard",
               description |-> <<"Add nil/null check with a meaningful error message or default">>,
               automated |-> FALSE],
              [order |-> 3, action |-> "root-cause",
               description |-> <<"Trace back to where null was first introduced (often in a factory or constructor)">>,
               automated |-> FALSE],
              [order |-> 4, action |-> "annotation",
               description |-> <<"Add @NullSafe / null-safety annotations to prevent regression">>,
               automated |-> FALSE],
              [order |-> 5, action |-> "test",
               description |-> <<"Add unit test for the null-input path">>,
               automated |-> TRUE]>>,
         PreventionMeasures |->
            <<"Enable null-safety linter rules (e.g., go vet, staticcheck SA5011)",
              "Require @NullSafe annotation on all new public APIs",
              "Add IDE plugin to flag potential nil dereferences">>,
         ShiftLeftRecommendations |->
            <<"Enable nil-check warnings as IDE errors (shift detection to IDE stage)",
              "Run staticcheck in pre-commit hook (shift to local_test)",
              "Add nil-pointer detection to CI pipeline">>,
         EstimatedEffort |-> "1-4 hours",
         RollbackPlan |-> "Revert the commit that removed the non-null guarantee",
         TestStrategy |-> "Unit test with nil/zero-value inputs, integration test for the affected flow"],
     performance |->
        [ImmediateActions |->
            <<"Check if a recent DB query lost an index",
              "Look for N+1 query patterns introduced in the change",
              "Compare flame graph before and after the change">>,
         FixSteps |->
            <<[order |-> 1, action |-> "profile",
               description |-> <<"Run profiler (pprof, perf, py-spy) to get baseline">>,
               automated |-> TRUE],
              [order |-> 2, action |-> "bisect",
               description |-> <<"Use git bisect to find the commit that caused the regression">>,
               automated |-> TRUE],
              [order |-> 3, action |-> "analyze",
               description |-> <<"Identify the hot path - DB query, loop, serialization, or allocation">>,
               automated |-> FALSE],
              [order |-> 4, action |-> "optimize",
               description |-> <<"Apply targeted fix: add index, batch queries, cache result, or reduce allocations">>,
               automated |-> FALSE],
              [order |-> 5, action |-> "benchmark",
               description |-> <<"Add benchmark test to lock in the performance improvement">>,
               automated |-> TRUE],
              [order |-> 6, action |-> "monitor",
               description |-> <<"Add performance metric/alert for this path">>,
               automated |-> TRUE]>>,
         PreventionMeasures |->
            <<"Add benchmark tests for all critical code paths",
              "Set performance budgets in CI (e.g., benchstat comparison)",
              "Add DB query explain-plan checks in code review">>,
         ShiftLeftRecommendations |->
            <<"Run benchmarks in CI and fail on >10% regression (shift to ci stage)",
              "Use continuous profiling in staging before prod promotion",
              "Add performance linting to catch O(n^2) patterns statically">>,
         EstimatedEffort |-> "4-16 hours (profiling + fix + benchmarks)",
         RollbackPlan |-> "Revert to previous release; apply hotfix forward",
         TestStrategy |-> "Benchmark tests, load testing with realistic data volumes"],
     crash |->
        [ImmediateActions |->
            <<"Enable feature flag to roll back or disable the new code path immediately",
              "Capture full stack trace and correlated logs",
              "Check error monitoring (Sentry, Datadog) for crash volume">>,
         FixSteps |->
            <<[order |-> 1, action |-> "rollback",
               description |-> <<"Roll back or disable the change to restore stability">>,
               automated |-> FALSE],
              [order |-> 2, action |-> "reproduce",
               description |-> <<"Reproduce crash in a local environment using the stack trace">>,
               automated |-> FALSE],
              [order |-> 3, action |-> "fix",
               description |-> <<"Address root cause - unhandled error, resource exhaustion, or invariant violation">>,
               automated |-> FALSE],
              [order |-> 4, action |-> "test",
               description |-> <<"Write test that covers the crash scenario">>,
               automated |-> FALSE],
              [order |-> 5, action |-> "canary",
               description |-> <<"Re-deploy fix to canary/staging before full rollout">>,
               automated |-> TRUE]>>,
         PreventionMeasures |->
            <<"Add crash-rate SLO alert (page when crash rate > baseline)",
              "Enable structured crash reporting with full context",
              "Use feature flags for all risky changes to allow instant rollback">>,
         ShiftLeftRecommendations |->
            <<"Run chaos/fault-injection tests in CI",
              "Add panic/exception tracking to staging environment",
              "Enable race detector in test runs (go test -race)">>,
         EstimatedEffort |-> "2-8 hours for hotfix; 1-3 days for root cause fix",
         RollbackPlan |-> "Immediately revert via feature flag; if no flag, revert deployment",
         TestStrategy |-> "Crash reproduction test, fault injection, end-to-end scenario test"],
     security_flaw |->
        [ImmediateActions |->
            <<"Immediately disable or isolate the affected endpoint/feature",
              "Notify security team (treat as incident)",
              "Assess whether the vulnerability has been exploited (check audit logs)">>,
         FixSteps |->
            <<[order |-> 1, action |-> "contain",
               description |-> <<"Disable affected feature or apply WAF rule immediately">>,
               automated |-> FALSE],
              [order |-> 2, action |-> "assess",
               description |-> <<"Determine blast radius: what data/systems are exposed">>,
               automated |-> FALSE],
              [order |-> 3, action |-> "fix",
               description |-> <<"Apply security patch with input validation / output encoding / authz check">>,
               automated |-> FALSE],
              [order |-> 4, action |-> "audit",
               description |-> <<"Full security audit of adjacent code paths">>,
               automated |-> FALSE],
              [order |-> 5, action |-> "pen-test",
               description |-> <<"Targeted penetration test of the fix">>,
               automated |-> FALSE],
              [order |-> 6, action |-> "disclose",
               description |-> <<"Coordinate responsible disclosure if external impact">>,
               automated |-> FALSE]>>,
         PreventionMeasures |->
            <<"Add SAST scanner (Semgrep, CodeQL) to CI pipeline",
              "Add DAST scanner against staging before every release",
              "Enforce security code review for all auth/data-handling changes">>,
         ShiftLeftRecommendations |->
            <<"Run SAST in IDE via plugin (shift to ide stage)",
              "Require security review checklist in PR template",
              "Add automated SQL injection / XSS checks to CI">>,
         EstimatedEffort |-> "1-2 days for patch; 1 week for full audit",
         RollbackPlan |-> "Immediately revert; do NOT wait for a clean fix if actively exploited",
         TestStrategy |-> "OWASP test suite, targeted exploit PoC test, regression test suite"],
     memory_leak |->
        [ImmediateActions |->
            <<"Check if recent change added a long-lived reference or disabled GC pressure relief",
              "Monitor heap growth rate in production">>,
         FixSteps |->
            <<[order |-> 1, action |-> "profile",
               description |-> <<"Capture heap profile before and after change (pprof heap, valgrind)">>,
               automated |-> TRUE],
              [order |-> 2, action |-> "identify",
               description |-> <<"Identify the leaking allocation type and call site">>,
               automated |-> FALSE],
              [order |-> 3, action |-> "fix",
               description |-> <<"Close resources, remove stale references, add defer/finally cleanup">>,
               automated |-> FALSE],
              [order |-> 4, action |-> "test",
               description |-> <<"Add test that runs the path N times and checks heap growth">>,
               automated |-> FALSE],
              [order |-> 5, action |-> "monitor",
               description |-> <<"Add heap metric alert for abnormal growth rate">>,
               automated |-> TRUE]>>,
         PreventionMeasures |->
            <<"Add heap memory leak detection to CI (go test with -memprofile)",
              "Require resource cleanup review for all I/O or connection changes">>,
         ShiftLeftRecommendations |->
            <<"Run go test -memprofile in CI and fail on unexpected heap growth",
              "Enable leak detector in integration tests">>,
         EstimatedEffort |-> "4-12 hours",
         RollbackPlan |-> "Revert the change; restart affected services to clear leaked memory",
         TestStrategy |-> "Memory benchmark, long-running soak test, heap profiling"]
    ]

\* The generic fallback playbook.
GenericPlaybook ==
    [ImmediateActions |->
        <<"Reproduce the issue in a local or staging environment",
          "Identify the most recent change to the affected area">>,
     FixSteps |->
        <<[order |-> 1, action |-> "reproduce",
           description |-> <<"Write a failing test case that captures the bug">>,
           automated |-> FALSE],
          [order |-> 2, action |-> "bisect",
           description |-> <<"Use git bisect to find the introducing commit">>,
           automated |-> TRUE],
          [order |-> 3, action |-> "fix",
           description |-> <<"Apply targeted fix addressing the root cause">>,
           automated |-> FALSE],
          [order |-> 4, action |-> "test",
           description |-> <<"Verify the fix with the reproduction test">>,
           automated |-> FALSE],
          [order |-> 5, action |-> "review",
           description |-> <<"Submit for code review with clear description of root cause and fix">>,
           automated |-> FALSE]>>,
     PreventionMeasures |->
        <<"Add regression test to the test suite",
          "Document the failure mode in the codebase">>,
     ShiftLeftRecommendations |->
        <<"Add test coverage to catch this class of bug earlier in the pipeline",
          "Consider adding a linter rule to detect this pattern">>,
     EstimatedEffort |-> "Unknown - depends on root cause",
     RollbackPlan |-> "Revert the introducing commit",
     TestStrategy |-> "Unit test covering the failure scenario"]

\* The JSON type each field of GenerateFixPlanInput decodes from.
GenerateFixPlanInput ==
    [regression_type |-> "string",
     severity        |-> "string",
     affected_files  |-> "array",
     root_cause      |-> "string",
     priority        |-> "string"]

\* strings.Join(elems, sep), as the sequence of the pieces joined.
RECURSIVE Join(_, _)
Join(elems, sep) ==
    IF elems = <<>> THEN <<>>
    ELSE IF Len(elems) = 1 THEN <<elems[1]>>
    ELSE <<elems[1], sep>> \o Join(Tail(elems), sep)

\* The lookup in a playbook table, with the generic playbook for a type
\* the table does not hold.  The value found is a copy of the entry.
PlaybookIn(table, regressionType) ==
    IF regressionType \in DOMAIN table
    THEN table[regressionType]
    ELSE GenericPlaybook

\* The playbook of a regression type, the generic one when it has none.
Playbook(regressionType) == PlaybookIn(fixPlaybooks, regressionType)

\* The two actions put in front for a P0 or critical issue.
EscalationActions ==
    <<"PAGE ON-CALL IMMEDIATELY - this is a P0 incident",
      "Open incident bridge / war room">>

\* Variant of EscalationStep: the escalation actions are put at the end.
EscalationStepAppends(playbook, input) ==
    IF input.Priority = "P0" \/ input.Severity = "critical"
    THEN [playbook EXCEPT !.ImmediateActions = @ \o EscalationActions]
    ELSE playbook

\* The customization by severity and priority.
EscalationStep(playbook, input) ==
    IF input.Priority = "P0" \/ input.Severity = "critical"
    THEN [playbook EXCEPT !.ImmediateActions = EscalationActions \o @]
    ELSE playbook

\* Variant of FocusFilesStep: the added step is numbered with the step count
\* before the append.
FocusFilesStepOrderIsCount(playbook, input) ==
    IF Len(input.AffectedFiles) > 0
    THEN [playbook EXCEPT !.FixSteps =
            Append(@, [order       |-> Len(@),
                       action      |-> "focus-files",
                       description |-> <<"Focus review on: ">>
                                          \o Join(input.AffectedFiles, ", "),
                       automated   |-> FALSE])]
    ELSE playbook

\* The annotation of the affected files into the fix steps.
FocusFilesStep(playbook, input) ==
    IF Len(input.AffectedFiles) > 0
    THEN [playbook EXCEPT !.FixSteps =
            Append(@, [order       |-> Len(@) + 1,
                       action      |-> "focus-files",
                       description |-> <<"Focus review on: ">>
                                          \o Join(input.AffectedFiles, ", "),
                       automated   |-> FALSE])]
    ELSE playbook

\* The struct json.Unmarshal fills from the object.
DecodeFixPlanInput(inputJSON) ==
    [RegressionType |-> Field(inputJSON, "regression_type", ""),
     Severity       |-> Field(inputJSON, "severity", ""),
     AffectedFiles  |-> Field(inputJSON, "affected_files", <<>>),
     RootCause      |-> Field(inputJSON, "root_cause", ""),
     Priority       |-> Field(inputJSON, "priority", "")]

\* json.Marshal(playbook)
MarshalPlaybook(playbook) ==
    [immediate_actions          |-> playbook.ImmediateActions,
     fix_steps                  |-> playbook.FixSteps,
     prevention_measures        |-> playbook.PreventionMeasures,
     shift_left_recommendations |-> playbook.ShiftLeftRecommendations,
     estimated_effort           |-> playbook.EstimatedEffort,
     rollback_plan              |-> playbook.RollbackPlan,
     test_strategy              |-> playbook.TestStrategy]

\* GenerateFixPlan(inputJSON): the result and the error.
GenerateFixPlan(inputJSON) ==
    IF DecodeFails(inputJSON, GenerateFixPlanInput)
    THEN [output |-> "", err |-> "unmarshal error"]
    ELSE LET input == DecodeFixPlanInput(inputJSON)
             playbook == FocusFilesStep(
                             EscalationStep(Playbook(input.RegressionType), input),
                             input)
         IN [output |-> MarshalPlaybook(playbook), err |-> "nil"]

(* ----------------------- calls of GenerateFixPlan ---------------------- *)

\* Regression types drawn: those DetectRegression reports, and others.
FixTypes ==
    {regressionSignals[i].regrType : i \in 1..Len(regressionSignals)}
    \cup {"unknown", "", "Crash"}

FixSeverities == {"critical", "high", "low"}

FixPriorities == {"P0", "P1", "P3", "p0"}

AffectedFileLists ==
    {<<>>, <<"auth/login.go">>, <<"auth/login.go", "db/query.go">>}

MkFixPlanInput(t, s, f, p) ==
    [regression_type |-> JStr(t),
     severity        |-> JStr(s),
     affected_files  |-> JArr(f),
     root_cause      |-> JStr("guard removed in refactoring"),
     priority        |-> JStr(p)]

\* Inputs drawn for GenerateFixPlan: the complete objects, objects without
\* one of the fields, one with a field the struct does not have, and one
\* whose file list is a string.
FixPlanInputs ==
    {MkFixPlanInput(t, s, f, p) :
        t \in FixTypes, s \in FixSeverities, f \in AffectedFileLists, p \in FixPriorities}
    \cup {Without(MkFixPlanInput("crash", "high", <<"auth/login.go">>, "P1"), k) :
             k \in DOMAIN GenerateFixPlanInput}
    \cup {MkFixPlanInput("crash", "high", <<>>, "P1") @@ ("ticket" :> JStr("LB-7"))}
    \cup {[MkFixPlanInput("crash", "high", <<>>, "P1")
              EXCEPT !.affected_files = JStr("auth/login.go")]}

FixPlanIdle ==
    /\ fpc = "idle"
    /\ fin = MkFixPlanInput("", "", <<>>, "")
    /\ fout = NoReturn

(* --------------------------- AttributeToOwner -------------------------- *)

\* The handler tools.AttributeToOwner is registered in allTools but its
\* source is not part of the sources modelled here; the definitions of this
\* section follow the description of the Attribution Engine (spec.md 4.4).

\* The ownership rules, in priority order.  Of the ten rules only the two
\* whose component is named are written down: auth-service and data-layer,
\* with the keywords that the paths auth/login.go and db/query.go match.
ownershipRules == <<
    [keywords |-> <<<<"a","u","t","h">>>>, component |-> "auth-service"],
    [keywords |-> <<<<"d","b">>>>, component |-> "data-layer"]
>>

\* The part of a path after its last separator.
BaseName(f) ==
    IF HasSeparator(f)
    THEN SubSeq(f, (CHOOSE i \in 1..Len(f) :
                       f[i] = "/" /\ \A j \in (i + 1)..Len(f) : f[j] # "/") + 1, Len(f))
    ELSE f

\* A rule matches a file when one of its keywords is a substring of the
\* lowercased path or of the lowercased base name.
RuleMatches(rule, f) ==
    \E k \in 1..Len(rule.keywords) :
        \/ Contains(ToLower(f), rule.keywords[k])
        \/ Contains(ToLower(BaseName(f)), rule.keywords[k])

\* The component of a file: that of the first matching rule, else core-logic.
ComponentOf(f) ==
    IF \E i \in 1..Len(ownershipRules) : RuleMatches(ownershipRules[i], f)
    THEN ownershipRules[CHOOSE i \in 1..Len(ownershipRules) :
                           /\ RuleMatches(ownershipRules[i], f)
                           /\ \A j \in 1..(i - 1) :
                                 ~RuleMatches(ownershipRules[j], f)].component
    ELSE "core-logic"

\* The buckets in the order they were first populated, each with its files.
RECURSIVE Buckets(_, _)
Buckets(sofar, files) ==
    IF files = <<>> THEN sofar
    ELSE LET c == ComponentOf(Head(files)) IN
         IF \E i \in 1..Len(sofar) : sofar[i].component = c
         THEN Buckets([i \in 1..Len(sofar) |->
                          IF sofar[i].component = c
                          THEN [sofar[i] EXCEPT !.matched_files = Append(@, Head(files))]
                          ELSE sofar[i]],
                      Tail(files))
         ELSE Buckets(Append(sofar, [component |-> c, matched_files |-> <<Head(files)>>]),
                      Tail(files))

\* Confidence of a bucket: 0.40 for core-logic, else the share of the files,
\* at most 0.95; an empty file list counts as one file.
OwnerConfidence(bucket, total) ==
    IF bucket.component = "core-logic" THEN F(40, 100)
    ELSE FMin(F(Len(bucket.matched_files), IF total = 0 THEN 1 ELSE total), F(95, 100))

\* Variant of InsertRanked: the new owner goes before owners of equal
\* confidence.
RECURSIVE InsertRankedBeforeTies(_, _)
InsertRankedBeforeTies(ranked, x) ==
    IF ranked = <<>> THEN <<x>>
    ELSE IF Head(ranked).confidence > x.confidence
         THEN <<Head(ranked)>> \o InsertRankedBeforeTies(Tail(ranked), x)
         ELSE <<x>> \o ranked

\* One step of the stable sort by descending confidence: the new owner goes
\* after every owner of greater or equal confidence.
RECURSIVE InsertRanked(_, _)
InsertRanked(ranked, x) ==
    IF ranked = <<>> THEN <<x>>
    ELSE IF Head(ranked).confidence >= x.confidence
         THEN <<Head(ranked)>> \o InsertRanked(Tail(ranked), x)
         ELSE <<x>> \o ranked

RECURSIVE Ranked(_, _)
Ranked(ranked, owners) ==
    IF owners = <<>> THEN ranked
    ELSE Ranked(InsertRanked(ranked, Head(owners)), Tail(owners))

\* The narrative signals: one per rule with a keyword in the description,
\* and one for the regression types null_pointer, performance, security_flaw.
AttributionSignals(description, regressionType) ==
    LET desc == ToLower(description)
        hit == SelectSeq([i \in 1..Len(ownershipRules) |-> ownershipRules[i]],
                         LAMBDA r : \E k \in 1..Len(r.keywords) : Contains(desc, r.keywords[k]))
    IN [i \in 1..Len(hit) |-> [about |-> "description", name |-> hit[i].component]]
       \o (IF regressionType \in {"null_pointer", "performance", "security_flaw"}
           THEN <<[about |-> "regression_type", name |-> regressionType]>>
           ELSE <<>>)

\* The JSON type each field of AttributeIssueInput decodes from.
AttributeIssueInput ==
    [files_changed   |-> "array",
     description     |-> "string",
     regression_type |-> "string"]

\* AttributeToOwner(inputJSON): the result and the error.
AttributeToOwner(inputJSON) ==
    IF DecodeFails(inputJSON, AttributeIssueInput)
    THEN [output |-> "", err |-> "unmarshal error"]
    ELSE LET files == Field(inputJSON, "files_changed", <<>>)
             buckets == Buckets(<<>>, files)
             owners == [i \in 1..Len(buckets) |->
                           [component     |-> buckets[i].component,
                            matched_files |-> buckets[i].matched_files,
                            confidence    |-> OwnerConfidence(buckets[i], Len(files))]]
             ranked == Ranked(<<>>, owners)
         IN [output |->
                [suspected_owners    |-> ranked,
                 top_component       |-> IF ranked = <<>> THEN "" ELSE ranked[1].component,
                 default_reviewer    |-> IF ranked = <<>> THEN "team-lead"
                                         ELSE ranked[1].component,
                 reviewer_suffix     |-> IF ranked = <<>> THEN "" ELSE "-owner",
                 attribution_signals |->
                     AttributionSignals(Field(inputJSON, "description", <<>>),
                                        Field(inputJSON, "regression_type", ""))],
             err |-> "nil"]

(* ---------------------- calls of AttributeToOwner ---------------------- *)

\* Largest number of changed files of a drawn input.
MaxFiles == 3

AuthLoginGo == <<"a","u","t","h","/","l","o","g","i","n",".","g","o">>

DbQueryGo == <<"d","b","/","q","u","e","r","y",".","g","o">>

RandomTxt == <<"r","a","n","d","o","m",".","t","x","t">>

\* A path both rules match, in upper case.
DbAuthGo == <<"s","r","c","/","D","B","/","A","u","t","h","S","t","o","r","e",".","g","o">>

ChangedPaths == {AuthLoginGo, DbQueryGo, RandomTxt, DbAuthGo}

AttributionDescriptions == {<<>>, <<"D","B"," ","l","o","c","k"," ","i","n"," ","a","u","t","h">>}

MkAttributeInput(f, d, t) ==
    [files_changed   |-> JArr(f),
     description     |-> JStr(d),
     regression_type |-> JStr(t)]

\* Inputs drawn for AttributeToOwner: every file list of up to MaxFiles of
\* the paths, with and without a description, and one whose file list is a
\* string.
AttributeInputs ==
    {MkAttributeInput(f, d, t) :
        f \in UNION {[1..n -> ChangedPaths] : n \in 0..MaxFiles},
        d \in AttributionDescriptions,
        t \in {"null_pointer", "crash"}}
    \cup {[MkAttributeInput(<<>>, <<>>, "crash") EXCEPT !.files_changed = JStr(RandomTxt)]}

(* ------------------- a session of concurrent callers ------------------- *)

\* Largest number of handler calls started in one session.
MaxSessionCalls == 3

\* The goroutines that call the handlers.
Callers == {1, 2}

\* The package-level tables as the program text initializes them.
InitialTables ==
    [regressionSignals     |-> regressionSignals,
     environmentMultiplier |-> environmentMultiplier,
     severityBaseScore     |-> severityBaseScore,
     fixPlaybooks          |-> fixPlaybooks]

\* The inputs the callers of a session draw from.
SessionFixPlanInputs ==
    {MkFixPlanInput(t, "critical", <<"auth/login.go">>, "P3") : t \in {"crash", "unknown"}}
    \cup {MkFixPlanInput(t, "low", <<>>, "P3") : t \in {"crash", "unknown"}}

SessionTriageInputs ==
    {MkTriageInput("crash", "high", e, 0) : e \in {"ci", "production"}}

SessionDetectInputs ==
    {MkDetectInput(PanicDescription, <<>>, <<>>, h) :
        h \in {[given |-> FALSE, val |-> <<>>],
               [given |-> TRUE, val |-> <<<<"f","a","i","l">>>>]}}

NoCalls == [detect_regression |-> {}, triage_issue |-> {}, generate_fix_plan |-> {}]

AttributionIdle ==
    /\ apc = "idle"
    /\ ain = [files_changed |-> JArr(<<>>)]
    /\ aout = NoReturn

SessionIdle ==
    /\ tables = InitialTables
    /\ cpc = [c \in Callers |-> "idle"]
    /\ cin = [c \in Callers |-> DecodeFixPlanInput(MkFixPlanInput("", "", <<>>, ""))]
    /\ clocal = [c \in Callers |-> GenericPlaybook]
    /\ returned = NoCalls
    /\ ncalls = 0

\* A caller runs DetectRegression: the handler only reads regressionSignals.
SessionDetect(c) ==
    /\ cpc[c] = "idle"
    /\ ncalls < MaxSessionCalls
    /\ \E in \in SessionDetectInputs :
          returned' = [returned EXCEPT !.detect_regression =
                          @ \cup {[seq |-> ncalls + 1, in |-> in,
                                   out |-> DetectRegression(in).output]}]
    /\ ncalls' = ncalls + 1
    /\ UNCHANGED <<tables, cpc, cin, clocal, rvars, dvars, tvars, fvars, avars>>

\* A caller runs TriageIssue: the handler only reads the two score tables.
SessionTriage(c) ==
    /\ cpc[c] = "idle"
    /\ ncalls < MaxSessionCalls
    /\ \E in \in SessionTriageInputs :
          returned' = [returned EXCEPT !.triage_issue =
                          @ \cup {[seq |-> ncalls + 1, in |-> in,
                                   out |-> TriageIssue(in).output]}]
    /\ ncalls' = ncalls + 1
    /\ UNCHANGED <<tables, cpc, cin, clocal, rvars, dvars, tvars, fvars, avars>>

\* A caller enters GenerateFixPlan: the input is decoded and the playbook
\* looked up in the table; the local variable holds a copy of the entry.
SessionLookup(c) ==
    /\ cpc[c] = "idle"
    /\ ncalls < MaxSessionCalls
    /\ \E in \in SessionFixPlanInputs :
          /\ cin' = [cin EXCEPT ![c] = DecodeFixPlanInput(in)]
          /\ clocal' = [clocal EXCEPT ![c] =
                           PlaybookIn(tables.fixPlaybooks,
                                      DecodeFixPlanInput(in).RegressionType)]
    /\ cpc' = [cpc EXCEPT ![c] = "looked_up"]
    /\ ncalls' = ncalls + 1
    /\ UNCHANGED <<tables, returned, rvars, dvars, tvars, fvars, avars>>

\* The caller customizes its local playbook.  The escalation is appended to
\* a new slice literal; the slices of a table entry come from slice
\* literals, whose capacity is their length, so the append of the
\* focus-files step allocates a new array: the table is not written.
SessionCustomize(c) ==
    /\ cpc[c] = "looked_up"
    /\ clocal' = [clocal EXCEPT ![c] =
                     FocusFilesStep(EscalationStep(clocal[c], cin[c]), cin[c])]
    /\ cpc' = [cpc EXCEPT ![c] = "customized"]
    /\ UNCHANGED <<tables, cin, returned, ncalls, rvars, dvars, tvars, fvars, avars>>

\* Variant of SessionReturn: the customized playbook is stored back in the
\* table entry of its regression type.
SessionReturnStoresBack(c) ==
    /\ cpc[c] = "customized"
    /\ returned' = [returned EXCEPT !.generate_fix_plan =
                       @ \cup {[seq |-> Cardinality(@) + 1, in |-> cin[c],
                                out |-> MarshalPlaybook(clocal[c])]}]
    /\ tables' = IF cin[c].RegressionType \in DOMAIN tables.fixPlaybooks
                 THEN [tables EXCEPT !.fixPlaybooks[cin[c].RegressionType] = clocal[c]]
                 ELSE tables
    /\ cpc' = [cpc EXCEPT ![c] = "idle"]
    /\ UNCHANGED <<cin, clocal, ncalls, rvars, dvars, tvars, fvars, avars>>

\* The caller marshals its local playbook and returns.
SessionReturn(c) ==
    /\ cpc[c] = "customized"
    /\ returned' = [returned EXCEPT !.generate_fix_plan =
                       @ \cup {[seq |-> Cardinality(@) + 1, in |-> cin[c],
                                out |-> MarshalPlaybook(clocal[c])]}]
    /\ cpc' = [cpc EXCEPT ![c] = "idle"]
    /\ UNCHANGED <<tables, cin, clocal, ncalls, rvars, dvars, tvars, fvars, avars>>

InitSession ==
    /\ RunInit
    /\ DetectIdle
    /\ TriageIdle
    /\ FixPlanIdle
    /\ AttributionIdle
    /\ SessionIdle

NextSession ==
    \E c \in Callers :
        \/ SessionDetect(c)
        \/ SessionTriage(c)
        \/ SessionLookup(c)
        \/ SessionCustomize(c)
        \/ SessionReturn(c)

SpecSession == InitSession /\ [][NextSession]_vars

(* ------------------- one call of one tool handler --------------------- *)

InitDetect ==
    /\ RunInit
    /\ TriageIdle
    /\ FixPlanIdle
    /\ AttributionIdle
    /\ SessionIdle
    /\ dpc = "input"
    /\ din \in DetectInputs
    /\ dout = NoReturn

\* One call of the handler on the drawn input.
CallDetectRegression ==
    /\ dpc = "input"
    /\ dout' = DetectRegression(din)
    /\ dpc' = "returned"
    /\ UNCHANGED <<din, rvars, tvars, fvars, avars, svars>>

NextDetect == CallDetectRegression

SpecDetect == InitDetect /\ [][NextDetect]_vars

InitTriage ==
    /\ RunInit
    /\ DetectIdle
    /\ FixPlanIdle
    /\ AttributionIdle
    /\ SessionIdle
    /\ tpc = "input"
    /\ tin \in TriageInputs
    /\ tout = NoReturn

\* One call of TriageIssue on the drawn input.
CallTriageIssue ==
    /\ tpc = "input"
    /\ tout' = TriageIssue(tin)
    /\ tpc' = "returned"
    /\ UNCHANGED <<tin, rvars, dvars, fvars, avars, svars>>

NextTriage == CallTriageIssue

SpecTriage == InitTriage /\ [][NextTriage]_vars

InitFixPlan ==
    /\ RunInit
    /\ DetectIdle
    /\ TriageIdle
    /\ AttributionIdle
    /\ SessionIdle
    /\ fpc = "input"
    /\ fin \in FixPlanInputs
    /\ fout = NoReturn

\* One call of GenerateFixPlan on the drawn input.
CallGenerateFixPlan ==
    /\ fpc = "input"
    /\ fout' = GenerateFixPlan(fin)
    /\ fpc' = "returned"
    /\ UNCHANGED <<fin, rvars, dvars, tvars, avars, svars>>

NextFixPlan == CallGenerateFixPlan

SpecFixPlan == InitFixPlan /\ [][NextFixPlan]_vars

InitAttribution ==
    /\ RunInit
    /\ DetectIdle
    /\ TriageIdle
    /\ FixPlanIdle
    /\ SessionIdle
    /\ apc = "input"
    /\ ain \in AttributeInputs
    /\ aout = NoReturn

\* One call of AttributeToOwner on the drawn input.
CallAttributeToOwner ==
    /\ apc = "input"
    /\ aout' = AttributeToOwner(ain)
    /\ apc' = "returned"
    /\ UNCHANGED <<ain, rvars, dvars, tvars, fvars, svars>>

NextAttribution == CallAttributeToOwner

SpecAttribution == InitAttribution /\ [][NextAttribution]_vars

\* The fields the input schema of each tool declares required.
schemaRequired ==
    [detect_regression |-> {"description", "environment"},
     triage_issue      |-> {"regression_type", "severity", "environment",
                            "affected_users_estimate"},
     generate_fix_plan |-> {"regression_type", "severity", "root_cause", "priority"}]

\* One call of one of the three handlers.
InitHandlers == InitDetect \/ InitTriage \/ InitFixPlan

NextHandlers ==
    \/ CallDetectRegression
    \/ CallTriageIssue
    \/ CallGenerateFixPlan

SpecHandlers == InitHandlers /\ [][NextHandlers]_vars

(* --------------------------- specifications --------------------------- *)

Init ==
    /\ RunInit
    /\ DetectIdle
    /\ TriageIdle
    /\ FixPlanIdle
    /\ AttributionIdle
    /\ SessionIdle

Next ==
    \/ IssueCall
    \/ ModelFail
    \/ ModelReply
    \/ SkipBlock
    \/ ExecTool
    \/ Finish
    \/ FeedBack
    \/ Cancel

Spec == Init /\ [][Next]_vars

(***************************************************************************)
(* Properties of Agent.Run, checked under Spec.                            *)
(***************************************************************************)

\* The tool requests of a turn, in order, and their call identifiers.
ToolUses(c) == SelectSeq(c, LAMBDA b : b.kind = "tool_use")

UseIds(c) == [i \in 1..Len(ToolUses(c)) |-> ToolUses(c)[i].id]

\* The call identifiers the tool results of a block list answer, in order.
ResultIds(c) == [i \in 1..Len(c) |-> c[i].tool_use_id]

AssistantTurns == {m \in 1..Len(messages) : messages[m].role = "assistant"}

\* Call identifiers of all tool requests of the first n turns, in order.
RECURSIVE RequestedUpTo(_)
RequestedUpTo(n) ==
    IF n = 0 THEN <<>>
    ELSE RequestedUpTo(n - 1) \o
         (IF messages[n].role = "assistant" THEN UseIds(messages[n].content) ELSE <<>>)

\* Places of the history that hold a tool result for a call identifier.
ResultsFor(id) ==
    UNION { { <<m, j>> : j \in { k \in 1..Len(messages[m].content) :
                                   /\ messages[m].content[k].kind = "tool_result"
                                   /\ messages[m].content[k].tool_use_id = id } }
            : m \in 1..Len(messages) }

\* A tool request that fails: its name is not registered, or its input is
\* not a JSON object the handler can decode.
FailingRequest(b) ==
    /\ b.kind = "tool_use"
    /\ (b.input # "object" \/ ~(\E i \in 1..Len(allTools) : allTools[i] = b.name))

\* C1: when a model call after the first is issued, every tool request of
\* the assistant turn appended just before has exactly one tool result in
\* the history with its call identifier, that result is in the turn fed
\* back, and the turn fed back answers nothing that was not requested.
C1_RequestsAnsweredExactlyOnce ==
    (pc = "awaiting" /\ calls > 1) =>
        LET a == messages[Len(messages) - 1]
            r == messages[Len(messages)]
        IN /\ a.role = "assistant"
           /\ r.role = "user"
           /\ \A i \in 1..Len(a.content) :
                a.content[i].kind = "tool_use" =>
                    /\ Cardinality(ResultsFor(a.content[i].id)) = 1
                    /\ \E j \in 1..Len(r.content) :
                          /\ r.content[j].kind = "tool_result"
                          /\ r.content[j].tool_use_id = a.content[i].id
           /\ \A j \in 1..Len(r.content) :
                /\ r.content[j].kind = "tool_result"
                /\ \E i \in 1..Len(a.content) :
                      /\ a.content[i].kind = "tool_use"
                      /\ a.content[i].id = r.content[j].tool_use_id

\* A second call is out after a turn with two requests, one of them failing.
C1_Witness ==
    /\ pc = "awaiting"
    /\ calls = 2
    /\ Len(ToolUses(messages[Len(messages) - 1].content)) >= 2
    /\ \E j \in 1..Len(messages[Len(messages)].content) :
          messages[Len(messages)].content[j].is_error

\* C2: Run returns successfully exactly at the first turn without tool
\* requests.  A first turn without requests means one model call and no
\* tool execution; a turn with requests is followed by the feeding back of
\* its results and the next call, whatever the number of calls so far.
C2_ReturnsAtFirstTurnWithoutTools ==
    LET last == messages[Len(messages)] IN
    /\ calls = Cardinality(AssistantTurns) + (IF pc \in {"awaiting", "failed"} THEN 1 ELSE 0)
    /\ pc = "done" =>
          /\ last.role = "assistant"
          /\ ToolUses(last.content) = <<>>
          /\ result = [text |-> finalText, err |-> "nil"]
    /\ (last.role = "assistant" /\ ToolUses(last.content) = <<>>) =>
          /\ pc \in {"tools", "done"}
          /\ (pc = "tools" /\ idx > Len(content)) => ENABLED Finish
    /\ \A m \in AssistantTurns :
          /\ m < Len(messages) => ToolUses(messages[m].content) # <<>>
          /\ (m = Len(messages) /\ ToolUses(messages[m].content) # <<>>) =>
                /\ pc = "tools"
                /\ result = NoResult
    /\ (Len(messages) >= 2 /\ ToolUses(messages[2].content) = <<>>) =>
          /\ calls = 1
          /\ execLog = <<>>
          /\ Len(messages) = 2
    /\ pc = "loop" =>
          /\ last.role = "user"
          /\ result = NoResult
          /\ calls < MaxCalls => ENABLED IssueCall

\* The run ends at the last call the model allows, after turns with requests.
C2_Witness ==
    /\ pc = "done"
    /\ calls = MaxCalls
    /\ execLog # <<>>

\* C3: every model call carries the full running history, the first one
\* the initial user message.
C3_EveryCallCarriesHistory ==
    pc = "awaiting" => sent = messages

\* C4: a failing tool call yields an error-flagged tool result with the
\* call identifier of its request and does not end the run: the other
\* requests of the turn are run and answered, and the next call is issued.
C4_ToolFailureIsReported ==
    /\ pc = "tools" =>
          LET uses == ToolUses(SubSeq(content, 1, idx - 1)) IN
          /\ Len(toolResults) = Len(uses)
          /\ \A k \in 1..Len(uses) :
                /\ toolResults[k].tool_use_id = uses[k].id
                /\ toolResults[k].is_error <=> FailingRequest(uses[k])
    /\ \A m \in AssistantTurns :
          (\E i \in 1..Len(messages[m].content) : FailingRequest(messages[m].content[i])) =>
              IF m = Len(messages)
              THEN pc = "tools" /\ result = NoResult
              ELSE LET uses == ToolUses(messages[m].content)
                       r == messages[m + 1]
                   IN /\ r.role = "user"
                      /\ Len(r.content) = Len(uses)
                      /\ \A k \in 1..Len(uses) :
                            /\ r.content[k].kind = "tool_result"
                            /\ r.content[k].tool_use_id = uses[k].id
                            /\ r.content[k].is_error <=> FailingRequest(uses[k])
                      /\ (m + 1 = Len(messages)) =>
                            /\ pc \in {"loop", "awaiting", "failed"}
                            /\ (pc = "loop" /\ calls < MaxCalls) => ENABLED IssueCall
                            /\ pc = "failed" => calls = Cardinality(AssistantTurns) + 1

\* A call is out after a turn whose first request named an unknown tool and
\* whose later request was still run.
C4_Witness ==
    /\ pc = "awaiting"
    /\ calls > 1
    /\ LET r == messages[Len(messages)].content IN
       \E k \in 1..Len(r) :
          /\ r[k].is_error
          /\ r[k].content = "unknown tool"
          /\ k < Len(r)
          /\ ~r[k + 1].is_error

\* C5: a failed model call ends the run with an error and an empty result:
\* the call is the last one issued, no step of the loop is possible
\* afterwards, and the accumulated text is not returned.
C5_FailedCallEndsRun ==
    pc = "failed" =>
        /\ result = [text |-> <<>>, err |-> "API call failed"]
        /\ outstanding = 0
        /\ calls = Cardinality(AssistantTurns) + 1
        /\ execLog = RequestedUpTo(Len(messages))
        /\ messages[Len(messages)].role = "user"
        /\ ~ENABLED IssueCall
        /\ ~ENABLED ModelReply
        /\ ~ENABLED ExecTool
        /\ ~ENABLED FeedBack

\* A later call failed after text had been accumulated.
C5_Witness ==
    /\ pc = "failed"
    /\ calls > 1
    /\ finalText # <<>>

\* C6: once ctx is cancelled, no tool request is run and no turn is
\* appended to the history.
C6_NothingAfterCancel ==
    [][cancelled => (execLog' = execLog /\ messages' = messages)]_vars

\* C7: the tool requests of a turn are run one at a time in the order of
\* the turn, their results are appended in that order, all of them before
\* the next model call; at most one model call is outstanding, and none
\* while tools run.
C7_SequentialInOrder ==
    /\ outstanding \in {0, 1}
    /\ outstanding = 1 <=> pc = "awaiting"
    /\ pc = "tools" =>
          /\ ResultIds(toolResults) = UseIds(SubSeq(content, 1, idx - 1))
          /\ execLog = RequestedUpTo(Len(messages) - 1) \o ResultIds(toolResults)
    /\ pc # "tools" => execLog = RequestedUpTo(Len(messages))
    /\ (pc \in {"loop", "awaiting"} /\ Len(messages) > 1) =>
          /\ messages[Len(messages)].role = "user"
          /\ ResultIds(messages[Len(messages)].content)
               = UseIds(messages[Len(messages) - 1].content)

\* A call is out after a turn of three requests had been run.
C7_Witness ==
    /\ pc = "awaiting"
    /\ calls > 1
    /\ Len(execLog) >= 3
    /\ Len(messages[Len(messages)].content) >= 3

(***************************************************************************)
(* Properties of DetectRegression, checked under SpecDetect.               *)
(***************************************************************************)

\* The call has returned a result.
Returned == dpc = "returned" /\ dout.err = "nil"

\* The decoded input and the text the keyword rows are matched against.
GivenInput == Unmarshal(din)

GivenText == ToLower(GivenInput.Description \o <<" ">> \o GivenInput.ErrorMessage)

\* Keyword-match count of every row on the given text.
RowCounts ==
    LET text == GivenText IN
    [i \in 1..Len(regressionSignals) |-> KeywordCount(text, regressionSignals[i])]

NoRowMatches ==
    LET text == GivenText IN
    \A i \in 1..Len(regressionSignals) :
       \A k \in 1..Len(regressionSignals[i].keywords) :
          ~Contains(text, regressionSignals[i].keywords[k])

\* The given input without its run history.
WithoutHistory == [k \in (DOMAIN din) \ {"run_history"} |-> din[k]]

\* C8: the row with the highest keyword-match count is selected, and among
\* rows tied for the highest count the earliest-defined one; the description
\* "panic: nil pointer dereference in handler" is classified null_pointer
\* with severity high, and without run history with confidence in [0.3, 0.9].
C8_HighestCountEarliestRowWins ==
    Returned =>
        /\ LET counts == RowCounts IN
           (\E i \in 1..Len(regressionSignals) : counts[i] > 0) =>
              \E w \in 1..Len(regressionSignals) :
                 /\ \A j \in 1..Len(regressionSignals) : counts[j] <= counts[w]
                 /\ \A j \in 1..(w - 1) : counts[j] < counts[w]
                 /\ dout.output.regression_type = regressionSignals[w].regrType
                 /\ dout.output.severity = regressionSignals[w].severity
        /\ (GivenInput.Description = PanicDescription /\ GivenInput.ErrorMessage = <<>>) =>
              /\ dout.output.regression_type = "null_pointer"
              /\ dout.output.severity = "high"
              /\ GivenInput.RunHistory = <<>> =>
                    /\ dout.output.confidence >= F(3, 10)
                    /\ dout.output.confidence <= F(9, 10)

\* The description of the scenario has been classified, with an error
\* message that ties the crash row with the null-pointer row.
C8_Witness ==
    /\ Returned
    /\ GivenInput.Description = PanicDescription
    /\ KeywordCount(GivenText, regressionSignals[1]) = 2
    /\ KeywordCount(GivenText, regressionSignals[2]) = 2
    /\ dout.output.regression_type = "null_pointer"

\* C9 as stated: whatever the run history, a text that matches no row gives
\* type unknown, severity low, confidence 0.2 and the no-pattern summary.
C9_NoMatchAlwaysUnknownAtOneFifth ==
    (Returned /\ NoRowMatches) =>
        /\ dout.output.regression_type = "unknown"
        /\ dout.output.severity = "low"
        /\ dout.output.confidence = F(2, 10)
        /\ dout.output.summary = NoPatternSummary

\* C9 as amended: a text that matches no row gives type unknown and
\* severity low whatever the run history; confidence 0.2, is_regression
\* false and the no-pattern summary when the run history holds no failure;
\* and with a failure in the run history a regression whose confidence is
\* the statistical confidence (at most 0.95) and whose summary reports it.
C9_NoMatchUnknownUnlessFailureSeen ==
    (Returned /\ NoRowMatches) =>
        LET failures == CountFailures(GivenInput.RunHistory)
            stat == wilsonLowerBound(failures, Len(GivenInput.RunHistory), Scale)
        IN /\ dout.output.regression_type = "unknown"
           /\ dout.output.severity = "low"
           /\ dout.output.indicators = <<>>
           /\ failures = 0 =>
                 /\ ~dout.output.is_regression
                 /\ dout.output.confidence = F(2, 10)
                 /\ dout.output.summary = NoPatternSummary
           /\ failures > 0 =>
                 /\ dout.output.is_regression
                 /\ dout.output.confidence = FMin(stat, F(95, 100))
                 /\ dout.output.summary.text = "Detected a regression"
                 /\ dout.output.summary.regression_type = "unknown"

\* A text without any keyword returned with a run history of passes only.
C9_Witness ==
    /\ Returned
    /\ NoRowMatches
    /\ Len(GivenInput.RunHistory) = MaxHistory
    /\ CountFailures(GivenInput.RunHistory) = 0
    /\ dout.output.confidence = F(2, 10)

\* C10: a run history with a failure forces is_regression, and the
\* confidence is min(statistical confidence, 0.95) when the statistical
\* confidence exceeds the confidence of the keyword step and that
\* confidence otherwise; a run history without failure leaves
\* is_regression and the confidence as they are without run history.
C10_FailureForcesRegression ==
    Returned =>
        LET failures == CountFailures(GivenInput.RunHistory)
            stat == wilsonLowerBound(failures, Len(GivenInput.RunHistory), Scale)
            kw == KeywordStep(GivenText)
            bare == DetectRegression(WithoutHistory).output
        IN /\ failures > 0 =>
                 /\ dout.output.is_regression
                 /\ dout.output.confidence =
                       IF stat > kw.confidence THEN FMin(stat, F(95, 100))
                       ELSE kw.confidence
           /\ failures = 0 =>
                 /\ dout.output.is_regression = bare.is_regression
                 /\ dout.output.confidence = bare.confidence

\* A keyword match whose confidence a weak run history does not lower.
C10_Witness ==
    /\ Returned
    /\ ~NoRowMatches
    /\ CountFailures(GivenInput.RunHistory) = 1
    /\ Len(GivenInput.RunHistory) = 3
    /\ dout.output.confidence = F(3, 10)
    /\ dout.output.run_stats.stat_confidence < F(3, 10)

\* The run history of the given JSON object was supplied (an array, which
\* may be empty), and the stats the result carries.
HistorySupplied == "run_history" \in DOMAIN din

Stats == dout.output.run_stats

\* C11: when a run history is supplied, a zero-length one included, the
\* result carries RunHistoryStats; for a zero-length history the stats have
\* total runs 0, failure count 0, failure rate 0 and statistical confidence 0.
C11_SuppliedHistoryCarriesStats ==
    (Returned /\ HistorySupplied) =>
        /\ ~Stats.nil
        /\ GivenInput.RunHistory = <<>> =>
              /\ Stats.total_runs = 0
              /\ Stats.failure_count = 0
              /\ Stats.failure_rate = 0
              /\ Stats.stat_confidence = 0

\* C12: for every non-empty run history the stats of the result have
\* total_runs = length of the history, 0 <= failure_count <= total_runs and
\* 0 <= stat_confidence <= 1.
C12_StatsWithinRange ==
    (Returned /\ Len(GivenInput.RunHistory) > 0) =>
        /\ ~Stats.nil
        /\ Stats.total_runs = Len(GivenInput.RunHistory)
        /\ 0 <= Stats.failure_count
        /\ Stats.failure_count <= Stats.total_runs
        /\ 0 <= Stats.stat_confidence
        /\ Stats.stat_confidence <= Scale

\* A history of full length with failures, passes and another token returned.
C12_Witness ==
    /\ Returned
    /\ Len(GivenInput.RunHistory) = MaxHistory
    /\ \E i \in 1..MaxHistory : GivenInput.RunHistory[i] = <<"e","r","r","o","r">>
    /\ Stats.failure_count > 0
    /\ Stats.failure_count < Stats.total_runs
    /\ Stats.stat_confidence > 0

\* Run-history tokens, and the distance of two numbers.
Fail == <<"f","a","i","l">>

Pass == <<"p","a","s","s">>

Dist(a, b) == IF a < b THEN b - a ELSE a - b

C14_FlakeFlagMatchesReportedConfidence ==
    (Returned /\ ~Stats.nil) =>
        (Stats.is_likely_flake <=> Stats.stat_confidence < F(40, 100))

(***************************************************************************)
(* Properties of TriageIssue, checked under SpecTriage.                    *)
(***************************************************************************)

\* The call has returned a result, and the fields it was given (a field
\* missing from the object has its zero value).
TriageReturned == tpc = "returned" /\ tout.err = "nil"

GivenSeverity == Field(tin, "severity", "")

GivenEnvironment == Field(tin, "environment", "")

GivenEstimate == Field(tin, "affected_users_estimate", 0)

\* C15: cost = severity base score x environment multiplier x user-impact
\* factor for every input: base score critical 100, high 50, medium 20,
\* low 5, else 20; multiplier ide 1, local_test 3, ci 10, code_review 15,
\* staging 30, production 100, else 30; factor 2.0 above 1000, 1.5 above
\* 100 and up to 1000, else 1.0 (the factor enters doubled, as 4, 3 or 2).
C15_CostIsBaseTimesMultiplierTimesFactor ==
    TriageReturned =>
        LET base == CASE GivenSeverity = "critical" -> 100
                      [] GivenSeverity = "high" -> 50
                      [] GivenSeverity = "medium" -> 20
                      [] GivenSeverity = "low" -> 5
                      [] OTHER -> 20
            mult == CASE GivenEnvironment = "ide" -> 1
                      [] GivenEnvironment = "local_test" -> 3
                      [] GivenEnvironment = "ci" -> 10
                      [] GivenEnvironment = "code_review" -> 15
                      [] GivenEnvironment = "staging" -> 30
                      [] GivenEnvironment = "production" -> 100
                      [] OTHER -> 30
            twice == IF GivenEstimate > 1000 THEN 4
                     ELSE IF GivenEstimate > 100 /\ GivenEstimate <= 1000 THEN 3
                     ELSE 2
        IN /\ 2 * tout.output.cpd_score = base * mult * twice * Scale
           /\ tout.output.cpd_multiplier = mult

\* A severity and an environment outside the tables, with an estimate of
\* exactly 1000, have been scored 20 x 30 x 1.5.
C15_Witness ==
    /\ TriageReturned
    /\ GivenSeverity = "urgent"
    /\ GivenEnvironment = "qa"
    /\ GivenEstimate = 1000
    /\ tout.output.cpd_score = F(900, 1)

\* Urgency of a priority, P3 lowest.
Urgency(p) == CASE p = "P0" -> 3 [] p = "P1" -> 2 [] p = "P2" -> 1 [] p = "P3" -> 0

\* C16: the priority follows the cost with thresholds inclusive below:
\* cost >= 5000 P0, 1000 <= cost < 5000 P1, 200 <= cost < 1000 P2,
\* cost < 200 P3; it is always one of the four, and the recommended action
\* is the one fixed for the priority.
C16_PriorityThresholds ==
    TriageReturned =>
        LET cost == tout.output.cpd_score
            priority == tout.output.priority
            action == tout.output.recommended_action
        IN /\ priority \in {"P0", "P1", "P2", "P3"}
           /\ priority = "P0" <=> cost >= F(5000, 1)
           /\ priority = "P1" <=> (F(1000, 1) <= cost /\ cost < F(5000, 1))
           /\ priority = "P2" <=> (F(200, 1) <= cost /\ cost < F(1000, 1))
           /\ priority = "P3" <=> cost < F(200, 1)
           /\ priority = "P0" =>
                 action = "Page on-call immediately. Revert or hotfix within 1 hour."
           /\ priority = "P1" =>
                 action = "Fix today. Assign to the last committer and block release if unresolved."
           /\ priority = "P2" =>
                 action = "Schedule fix this sprint. Add to team backlog with owner assigned."
           /\ priority = "P3" =>
                 action = "Add to backlog. Consider addressing during next refactoring cycle."

\* A cost of exactly 1000 has been given P1.
C16_Witness ==
    /\ TriageReturned
    /\ tout.output.cpd_score = F(1000, 1)
    /\ tout.output.priority = "P1"

\* The environments from the cheapest stage to the dearest.
StageOrder == <<"ide", "local_test", "ci", "code_review", "staging", "production">>

\* C17: with severity and user estimate fixed, the cost strictly increases
\* along ide, local_test, ci, code_review, staging, production; and for any
\* two inputs a higher cost has an equal or more urgent priority.
C17_CostAndPriorityMonotone ==
    (TriageReturned /\ tin \in FullTriageInputs) =>
        /\ \A i \in 1..Len(StageOrder) : \A j \in 1..Len(StageOrder) :
              (GivenEnvironment = StageOrder[i] /\ i < j) =>
                  TriageIssue([tin EXCEPT !.environment = JStr(StageOrder[j])]).output.cpd_score
                      > tout.output.cpd_score
        /\ \A other \in FullTriageInputs :
              LET o == TriageIssue(other).output IN
              o.cpd_score > tout.output.cpd_score =>
                  Urgency(o.priority) >= Urgency(tout.output.priority)

\* An issue found at CI has been scored, below the same issue at code review.
C17_Witness ==
    /\ TriageReturned
    /\ tin \in FullTriageInputs
    /\ GivenEnvironment = "ci"
    /\ tout.output.priority = "P2"
    /\ TriageIssue([tin EXCEPT !.environment = JStr("code_review")]).output.priority = "P1"

(***************************************************************************)
(* Properties of GenerateFixPlan, checked under SpecFixPlan.               *)
(***************************************************************************)

FixReturned == fpc = "returned" /\ fout.err = "nil"

GivenType == Field(fin, "regression_type", "")

\* C18: the two escalation actions are at the head of immediate_actions
\* exactly when priority is P0 or severity is critical, whatever the
\* regression type; the playbook's own immediate actions follow in their
\* order, and without escalation immediate_actions is the playbook's list.
C18_EscalationPrependedExactlyWhenUrgent ==
    FixReturned =>
        LET escalate == \/ Field(fin, "priority", "") = "P0"
                        \/ Field(fin, "severity", "") = "critical"
            fixed == <<"PAGE ON-CALL IMMEDIATELY - this is a P0 incident",
                       "Open incident bridge / war room">>
            own == IF GivenType \in DOMAIN fixPlaybooks
                   THEN fixPlaybooks[GivenType].ImmediateActions
                   ELSE GenericPlaybook.ImmediateActions
            actions == fout.output.immediate_actions
        IN /\ escalate => actions = fixed \o own
           /\ ~escalate => actions = own
           /\ escalate <=> (Len(actions) >= 2 /\ SubSeq(actions, 1, 2) = fixed)

\* A critical issue of a type without playbook, at priority P3, has been
\* planned with the escalation in front of the generic actions.
C18_Witness ==
    /\ FixReturned
    /\ GivenType = "unknown"
    /\ Field(fin, "severity", "") = "critical"
    /\ Field(fin, "priority", "") = "P3"
    /\ Len(fout.output.immediate_actions) = 4

\* C19: the table holds a playbook for exactly six regression types, and a
\* regression type without playbook gets the generic playbook with exactly
\* five fix steps (before the focus-files step of a non-empty file list).
C19_SixPlaybooksElseGenericFiveSteps ==
    FixReturned =>
        /\ Cardinality(DOMAIN fixPlaybooks) = 6
        /\ GivenType \notin DOMAIN fixPlaybooks =>
              /\ Len(GenericPlaybook.FixSteps) = 5
              /\ SubSeq(fout.output.fix_steps, 1, 5) = GenericPlaybook.FixSteps
              /\ fout.output.rollback_plan = GenericPlaybook.RollbackPlan
              /\ Len(fout.output.fix_steps) =
                    IF Field(fin, "affected_files", <<>>) = <<>> THEN 5 ELSE 6

(***************************************************************************)
(* Properties of the three handlers, checked under SpecHandlers.           *)
(***************************************************************************)

\* C20: a handler fails when a field its input schema declares required is
\* missing from the JSON object, and succeeds when only optional fields are
\* missing or fields it does not know are present.
C20_RequiredFieldsValidated ==
    LET validated(req, types, obj, ret) ==
            /\ ~(req \subseteq DOMAIN obj) => ret.err # "nil"
            /\ (req \subseteq DOMAIN obj /\ ~DecodeFails(obj, types)) => ret.err = "nil"
    IN /\ dpc = "returned" =>
             validated(schemaRequired.detect_regression, DetectRegressionInput, din, dout)
       /\ tpc = "returned" =>
             validated(schemaRequired.triage_issue, TriageIssueInput, tin, tout)
       /\ fpc = "returned" =>
             validated(schemaRequired.generate_fix_plan, GenerateFixPlanInput, fin, fout)

(***************************************************************************)
(* Properties of a session of calls, checked under SpecSession.            *)
(***************************************************************************)

\* The escalation was asked for by a decoded fix-plan input.
Escalates(input) == input.Priority = "P0" \/ input.Severity = "critical"

HasFocusFilesStep(out) ==
    \E i \in 1..Len(out.fix_steps) : out.fix_steps[i].action = "focus-files"

HasEscalation(out) ==
    \E i \in 1..Len(out.immediate_actions) :
        \E j \in 1..Len(EscalationActions) :
            out.immediate_actions[i] = EscalationActions[j]

\* C21: after any sequence or interleaving of handler calls the lookup
\* tables are as initialized; the result of a call depends only on its own
\* input, so two calls with the same input return the same output; and the
\* escalation actions and the focus-files step of one GenerateFixPlan call
\* never show in the result of a call that does not ask for them.
C21_TablesUnchangedCallsIndependent ==
    /\ tables = InitialTables
    /\ \A tool \in DOMAIN returned :
          \A r1 \in returned[tool] : \A r2 \in returned[tool] :
              r1.in = r2.in => r1.out = r2.out
    /\ \A r \in returned.generate_fix_plan :
          /\ r.out = MarshalPlaybook(
                         FocusFilesStep(
                             EscalationStep(Playbook(r.in.RegressionType), r.in), r.in))
          /\ ~Escalates(r.in) => ~HasEscalation(r.out)
          /\ r.in.AffectedFiles = <<>> => ~HasFocusFilesStep(r.out)

\* A call for a crash without escalation and files returned after a call
\* for a crash with both, while the other caller was inside GenerateFixPlan.
C21_Witness ==
    /\ \E r1 \in returned.generate_fix_plan : \E r2 \in returned.generate_fix_plan :
          /\ r1.seq < r2.seq
          /\ r1.in.RegressionType = "crash"
          /\ r2.in.RegressionType = "crash"
          /\ HasEscalation(r1.out)
          /\ HasFocusFilesStep(r1.out)
          /\ ~Escalates(r2.in)
          /\ r2.in.AffectedFiles = <<>>
    /\ \E c \in Callers : cpc[c] = "customized"

(***************************************************************************)
(* Properties of AttributeToOwner, checked under SpecAttribution.          *)
(***************************************************************************)

AttributionReturned == apc = "returned" /\ aout.err = "nil"

GivenFiles == Field(ain, "files_changed", <<>>)

\* Index of the first rule whose keywords match the file, 0 when none does.
FirstRule(f) ==
    LET hits == {i \in 1..Len(ownershipRules) :
                    \E k \in 1..Len(ownershipRules[i].keywords) :
                        Contains(ToLower(f), ownershipRules[i].keywords[k])}
    IN IF hits = {} THEN 0 ELSE CHOOSE i \in hits : \A j \in hits : i <= j

ExpectedComponent(f) ==
    IF FirstRule(f) = 0 THEN "core-logic" ELSE ownershipRules[FirstRule(f)].component

\* Position in the file list of the first file of a component.
FirstPopulated(c) ==
    CHOOSE i \in 1..Len(GivenFiles) :
        /\ ExpectedComponent(GivenFiles[i]) = c
        /\ \A j \in 1..(i - 1) : ExpectedComponent(GivenFiles[j]) # c

\* C22: each changed file is assigned to the first rule whose keywords match
\* it, else to core-logic; a component scores matched files / total files,
\* at most 0.95, and core-logic 0.40; the components are ranked by
\* descending confidence, ties in the order they were first populated; and
\* [auth/login.go, db/query.go, random.txt] gives core-logic (0.40, with
\* random.txt), then auth-service (1/3), then data-layer (1/3).
C22_AttributionRanking ==
    AttributionReturned =>
        LET files == GivenFiles
            owners == aout.output.suspected_owners
        IN /\ \A i \in 1..Len(files) :
                 \E k \in 1..Len(owners) :
                    /\ owners[k].component = ExpectedComponent(files[i])
                    /\ \E m \in 1..Len(owners[k].matched_files) :
                          owners[k].matched_files[m] = files[i]
           /\ \A k \in 1..Len(owners) :
                 /\ owners[k].matched_files =
                       SelectSeq(files, LAMBDA f : ExpectedComponent(f) = owners[k].component)
                 /\ owners[k].matched_files # <<>>
                 /\ \A k2 \in 1..Len(owners) :
                       owners[k2].component = owners[k].component => k2 = k
                 /\ owners[k].confidence =
                       IF owners[k].component = "core-logic" THEN F(40, 100)
                       ELSE FMin(F(Len(owners[k].matched_files), Len(files)), F(95, 100))
           /\ \A k \in 1..(Len(owners) - 1) :
                 \/ owners[k].confidence > owners[k + 1].confidence
                 \/ /\ owners[k].confidence = owners[k + 1].confidence
                    /\ FirstPopulated(owners[k].component)
                          < FirstPopulated(owners[k + 1].component)
           /\ files = <<AuthLoginGo, DbQueryGo, RandomTxt>> =>
                 owners = <<[component |-> "core-logic", matched_files |-> <<RandomTxt>>,
                             confidence |-> F(40, 100)],
                            [component |-> "auth-service", matched_files |-> <<AuthLoginGo>>,
                             confidence |-> F(1, 3)],
                            [component |-> "data-layer", matched_files |-> <<DbQueryGo>>,
                             confidence |-> F(1, 3)]>>

\* The file list of the scenario has been attributed, core-logic first.
C22_Witness ==
    /\ AttributionReturned
    /\ GivenFiles = <<AuthLoginGo, DbQueryGo, RandomTxt>>
    /\ aout.output.top_component = "core-logic"
    /\ Len(aout.output.suspected_owners) = 3

(* ------------------------------- C23 ----------------------------------- *)

\* The highest keyword-match count of a row on the given text.
BestCount ==
    LET counts == RowCounts
        w == CHOOSE w \in 1..Len(regressionSignals) :
                \A j \in 1..Len(regressionSignals) : counts[j] <= counts[w]
    IN counts[w]

\* The run history of the input holds no failure.
NoFailureSeen == CountFailures(GivenInput.RunHistory) = 0

\* C23: when a keyword row matches, the keyword-derived confidence is the
\* match count of the winning row divided by 9, clamped to [0.3, 0.9],
\* whichever row wins: counts 1 and 2 give 0.3, and the value is never above
\* 0.9.  It is the reported confidence of every call whose run history holds
\* no failure, and a lower limit of the reported confidence otherwise.
C23_KeywordConfidenceIsCountOverNine ==
    (Returned /\ BestCount > 0) =>
        LET ninth == RoundDiv(BestCount * Scale, 9)
            keywordConfidence ==
                IF ninth > F(9, 10) THEN F(9, 10)
                ELSE IF ninth < F(3, 10) THEN F(3, 10) ELSE ninth
        IN /\ Len(regressionSignals[1].keywords) + 3 = 9
           /\ keywordConfidence >= F(3, 10)
           /\ keywordConfidence <= F(9, 10)
           /\ BestCount \in {1, 2} => keywordConfidence = F(3, 10)
           /\ NoFailureSeen => dout.output.confidence = keywordConfidence
           /\ dout.output.confidence >= keywordConfidence

\* A call without failures in its history has returned for a text holding
\* all seven keywords of the performance row, which is not the first row.
C23_Witness ==
    /\ Returned
    /\ NoFailureSeen
    /\ BestCount = 7
    /\ dout.output.regression_type = "performance"
    /\ dout.output.confidence = RoundDiv(7 * Scale, 9)

(* ------------------------------- C24 ----------------------------------- *)

\* The affected files of the given input.
GivenAffectedFiles == Field(fin, "affected_files", <<>>)

\* The fix steps of the playbook selected for the given regression type.
PlaybookSteps == Playbook(GivenType).FixSteps

\* C24: with files supplied the returned fix steps are the steps of the
\* playbook, unchanged and in their positions, followed by exactly one
\* focus-files step whose order is one past the playbook's step count;
\* with or without files the order fields are 1, 2, ..., n in sequence.
C24_OneFocusFilesStepOrdersInSequence ==
    FixReturned =>
        LET steps == fout.output.fix_steps
            base == PlaybookSteps
        IN /\ Len(GivenAffectedFiles) > 0 =>
                 /\ Len(steps) = Len(base) + 1
                 /\ \A i \in 1..Len(base) : steps[i] = base[i]
                 /\ steps[Len(steps)].action = "focus-files"
                 /\ steps[Len(steps)].order = Len(base) + 1
                 /\ Cardinality({i \in 1..Len(steps) :
                                    steps[i].action = "focus-files"}) = 1
           /\ Len(GivenAffectedFiles) = 0 => steps = base
           /\ \A i \in 1..Len(steps) : steps[i].order = i

\* A plan has been returned for a regression type with a six-step playbook
\* and a non-empty file list.
C24_Witness ==
    /\ FixReturned
    /\ Len(GivenAffectedFiles) > 0
    /\ Len(PlaybookSteps) = 6
    /\ Len(fout.output.fix_steps) = 7
    /\ fout.output.fix_steps[7].action = "focus-files"

(* ------------------------------- C25 ----------------------------------- *)

\* The multiplier the tables of the specification give an environment, 30
\* for one outside the table.
StageMultiplier(env) ==
    CASE env = "ide" -> 1
      [] env = "local_test" -> 3
      [] env = "ci" -> 10
      [] env = "code_review" -> 15
      [] env = "staging" -> 30
      [] env = "production" -> 100
      [] OTHER -> 30

\* C25: the shift-left target follows the mapping production to staging,
\* staging to ci, ci to local_test, code_review to local_test, local_test to
\* ide and ide to itself, and the multiplier of the target is never greater
\* than the multiplier of the environment of detection.
C25_ShiftLeftMappingNeverCostlier ==
    TriageReturned =>
        LET target == tout.output.shift_left_target IN
        /\ GivenEnvironment = "production" => target = "staging"
        /\ GivenEnvironment = "staging" => target = "ci"
        /\ GivenEnvironment = "ci" => target = "local_test"
        /\ GivenEnvironment = "code_review" => target = "local_test"
        /\ GivenEnvironment = "local_test" => target = "ide"
        /\ GivenEnvironment = "ide" => target = "ide"
        /\ target \in {"ide", "local_test", "ci", "staging"}
        /\ StageMultiplier(target) <= tout.output.cpd_multiplier
        /\ tout.output.cpd_multiplier = StageMultiplier(GivenEnvironment)

\* An issue found in code review has been triaged: its target is
\* local_test, with multiplier 3 against 15.
C25_Witness ==
    /\ TriageReturned
    /\ GivenEnvironment = "code_review"
    /\ tout.output.shift_left_target = "local_test"
    /\ tout.output.cpd_multiplier = 15

(* ------------------------------- C26 ----------------------------------- *)

\* Twice the shift-left cost, in fixed point: base score x multiplier of the
\* shift-left target x twice the user-impact factor.
TwiceShiftLeftCost ==
    LET base == CASE GivenSeverity = "critical" -> 100
                  [] GivenSeverity = "high" -> 50
                  [] GivenSeverity = "medium" -> 20
                  [] GivenSeverity = "low" -> 5
                  [] OTHER -> 20
        twice == IF GivenEstimate > 1000 THEN 4
                 ELSE IF GivenEstimate > 100 THEN 3
                 ELSE 2
    IN base * StageMultiplier(tout.output.shift_left_target) * twice * Scale

\* r is the integer nearest to num / den, a half going to the even one.
NearestEven(r, num, den) ==
    LET d == IF r * den >= num THEN r * den - num ELSE num - r * den
    IN 2 * d < den \/ (2 * d = den /\ r % 2 = 0)

\* What the rationale says about the ratio: it is at least 1, and 1 only
\* for an issue found in the IDE.
RatioAtLeastOne ==
    /\ tout.output.cost_rationale.cheaper >= 1
    /\ tout.output.cost_rationale.cheaper = 1 => GivenEnvironment = "ide"

\* C26 as stated: for every input the shift-left cost in the rationale
\* equals base score x multiplier of the shift-left target x user-impact
\* factor and is strictly positive, and the ratio in the rationale is at
\* least 1, and 1 only for the environment ide.
C26_ReportedShiftLeftCostIsTheProduct ==
    TriageReturned =>
        /\ 2 * Scale * tout.output.cost_rationale.would_be = TwiceShiftLeftCost
        /\ tout.output.cost_rationale.would_be > 0
        /\ RatioAtLeastOne

\* C26, amended: for every input, an unrecognized environment (target ci)
\* included, the shift-left cost in the rationale is base score x multiplier
\* of the shift-left target x user-impact factor printed without decimals,
\* a half going to the even neighbour, and is strictly positive; the ratio
\* in the rationale is the quotient of the two multipliers printed the same
\* way, is at least 1, and is 1 only for the environment ide.
C26_ReportedShiftLeftCostIsTheRoundedProduct ==
    TriageReturned =>
        /\ NearestEven(tout.output.cost_rationale.would_be,
                       TwiceShiftLeftCost, 2 * Scale)
        /\ tout.output.cost_rationale.would_be > 0
        /\ TwiceShiftLeftCost > 0
        /\ NearestEven(tout.output.cost_rationale.cheaper,
                       StageMultiplier(GivenEnvironment),
                       StageMultiplier(tout.output.shift_left_target))
        /\ RatioAtLeastOne
        /\ GivenEnvironment \notin DOMAIN environmentMultiplier =>
              /\ tout.output.shift_left_target = "ci"
              /\ tout.output.cost_rationale.cheaper = 3

\* An issue of low severity found in code review with 1000 users has been
\* triaged: the shift-left cost 5 x 3 x 1.5 = 22.5 is printed as 22 and the
\* ratio as 5.
C26_Witness ==
    /\ TriageReturned
    /\ GivenSeverity = "low"
    /\ GivenEnvironment = "code_review"
    /\ GivenEstimate = 1000
    /\ tout.output.cost_rationale.would_be = 22
    /\ tout.output.cost_rationale.cheaper = 5

(* ------------------------------- C27 ----------------------------------- *)

\* The token is "fail" in any mix of cases, with nothing but white space
\* before and after it.
ReadsFail(t) ==
    \E i \in 1..Len(t) :
        /\ i + 3 <= Len(t)
        /\ t[i] \in {"f", "F"}
        /\ t[i + 1] \in {"a", "A"}
        /\ t[i + 2] \in {"i", "I"}
        /\ t[i + 3] \in {"l", "L"}
        /\ \A j \in 1..Len(t) :
              (j < i \/ j > i + 3) => t[j] \in {" ", "\t", "\n", "\r"}

\* C27: a token of the run history counts as a failure exactly when it
\* equals "fail" after trimming the surrounding white space and lowercasing;
\* every other token (pass, empty, anything else) counts as a run that did
\* not fail and still counts toward total_runs, and no token causes an
\* error.
C27_FailureExactlyWhenTokenReadsFail ==
    (dpc = "returned" /\ ~UnmarshalFails(din)) =>
        /\ dout.err = "nil"
        /\ Len(GivenInput.RunHistory) > 0 =>
              LET h == GivenInput.RunHistory IN
              /\ ~Stats.nil
              /\ Stats.total_runs = Len(h)
              /\ Stats.failure_count =
                    Cardinality({i \in 1..Len(h) : ReadsFail(h[i])})

\* A history of a token wrapped in white space, an empty token and the
\* token "failed" has been counted as three runs with one failure.
C27_Witness ==
    /\ Returned
    /\ GivenInput.RunHistory =
          <<<<"\t","F","a","i","l","\n">>, <<>>, <<"f","a","i","l","e","d">>>>
    /\ Stats.total_runs = 3
    /\ Stats.failure_count = 1

(* ------------------------------- C28 ----------------------------------- *)

\* The name derived from a path: what precedes its first separator, or the
\* whole path when it has none.
DerivedName(f) ==
    IF \E i \in 1..Len(f) : f[i] = "/"
    THEN CHOOSE p \in {SubSeq(f, 1, n) : n \in 0..Len(f)} :
            /\ Len(p) < Len(f)
            /\ f[Len(p) + 1] = "/"
            /\ \A j \in 1..Len(p) : p[j] # "/"
    ELSE f

\* The changed files of the given input.
GivenChangedFiles == GivenInput.FilesChanged

\* Position of the first file whose derived name is the given one.
FirstFileNamed(name) ==
    CHOOSE i \in 1..Len(GivenChangedFiles) :
        /\ DerivedName(GivenChangedFiles[i]) = name
        /\ \A j \in 1..(i - 1) : DerivedName(GivenChangedFiles[j]) # name

\* C28: affected_components holds, for the changed files in input order,
\* the first path segment of a path with a separator and the whole path
\* otherwise, with duplicates removed: every derived name appears exactly
\* once, in order of first appearance, and no other name appears.
C28_ComponentsAreDistinctFirstSegments ==
    Returned =>
        LET files == GivenChangedFiles
            out == dout.output.affected_components
        IN /\ \A i \in 1..Len(files) :
                 Cardinality({k \in 1..Len(out) :
                                 out[k] = DerivedName(files[i])}) = 1
           /\ \A k \in 1..Len(out) :
                 \E i \in 1..Len(files) : out[k] = DerivedName(files[i])
           /\ \A k1 \in 1..Len(out) : \A k2 \in 1..Len(out) :
                 k1 < k2 => FirstFileNamed(out[k1]) < FirstFileNamed(out[k2])

\* The components of three files, the first and the last in the same
\* directory, have been returned: the directory once, before README.md.
C28_Witness ==
    /\ Returned
    /\ Len(GivenChangedFiles) = 3
    /\ DerivedName(GivenChangedFiles[1]) = DerivedName(GivenChangedFiles[3])
    /\ dout.output.affected_components =
          <<<<"a","u","t","h">>, <<"R","E","A","D","M","E",".","m","d">>>>

====
